---------------------------- MODULE Spec2Model ----------------------------
(***************************************************************************)
(* A model of the Alfred command-line agent (cli/alfred.py):               *)
(*   - the Command Executor and its Safety Filter                          *)
(*     (execute_shell_command, execute_python_script and their callers     *)
(*     ask and execute),                                                   *)
(*   - the Tool Resolver (_resolve_tool with check_command_availability),  *)
(*   - the Capability Registry (_tool_supports_target) and the candidate   *)
(*     lists of convert (CONVERSION_MAP, category heuristic, PDF rescue).  *)
(* Strings whose characters matter (shell commands, format tokens) are     *)
(* sequences of one-character strings, so that lower(), strip(), the       *)
(* substring test and the regular expressions act on characters.           *)
(***************************************************************************)
EXTENDS Integers, Sequences, FiniteSets, TLC

VARIABLES
    \* ---- Command Executor (one CLI invocation) ----
    entry,          \* who called: "none", "direct", "ask", "execute"
    fn,             \* function running: "none", "shell", "script"
    command,        \* the command string / script text (sequence of characters)
    pc,             \* "Idle", "Pending", "Blocked", "Running", "Succeeded",
                    \* "Failed", "TimedOut", "NoInterpreter", "NotRun"
    trace,          \* the states this invocation went through, in order
    spawns,         \* number of subprocess.run calls of this invocation
    spawn_timeout,  \* timeout= argument of the spawned process (NoTimeout: none)
    spawn_path,     \* PATH of the spawned process, as a sequence of entries
    child,          \* the child process: "none", "running", "exited_0",
                    \* "exited_nonzero", "killed"
    ret,            \* return value of the function: "None" (not returned), "True", "False"
    tmp_exists,     \* the temporary script file of execute_python_script exists
    \* ---- the host ----
    installed,      \* names the Availability Prober finds an executable for
    loaded,         \* the _HAS_* flags that are True
    \* ---- a call of _resolve_tool ----
    res_pc,         \* "Idle", "Returned"
    res_tool_list,  \* the argument tool_list
    res_result,     \* the value returned: a tool identifier or "None"
    res_probed,     \* the names check_command_availability was called with, in order
    \* ---- a call of _tool_supports_target ----
    reg_pc,         \* "Idle", "Returned"
    reg_tool,       \* the argument tool
    reg_target,     \* the argument target
    reg_supported,  \* the value returned
    \* ---- an invocation of convert ----
    conv_pc,        \* "Idle", "FileNotFound", "NoKnownConverter", "NoCapableTool",
                    \* "ToolUnavailable", "Dispatched", "AdapterFormatUnsupported",
                    \* "ConversionFailed", "Finished"
    conv_ext,       \* ext
    conv_target,    \* target, normalized
    conv_exact,     \* the key is in CONVERSION_MAP
    conv_tool_list, \* tool_list
    conv_capable,   \* capable_tools, the list handed to _resolve_tool
    conv_tool,      \* tool, the result of _resolve_tool
    conv_adapter,   \* the branch of the dispatch of convert that runs the tool
    conv_raw,       \* the argument target_format
    conv_output_path, \* output_path
    conv_resolves,  \* number of calls of _resolve_tool
    conv_need_install, \* the tool printed after [NEED_INSTALL], "none" if none
    conv_adapter_calls, \* number of adapters run (commands or in-process routines)
    conv_shell,     \* what became of the adapter's command: "none", "Blocked",
                    \* "Succeeded", "Failed", "TimedOut"
    conv_ok,        \* what the in-process routine returned: "none", "True", "False"
    conv_spawns,    \* processes spawned by this invocation
    conv_written,   \* the output file was created or modified
    conv_exit,      \* exit code of the CLI: "none" (running), "0", "1"
    \* ---- a call of _categorize_file ----
    cat_pc,         \* "Idle", "Returned"
    cat_filename,   \* the argument filename
    cat_result,     \* the category returned
    \* ---- a call of _convert_data, and the conversion back ----
    data_pc,        \* "Idle", "Returned", "Back"
    data_call,      \* the arguments and the content of the input file
    data_ret,       \* the result of the call
    data_back,      \* the result of converting the CSV written back to JSON
    \* ---- an invocation of dispatch, and its call of get_llm_response ----
    disp_pc,        \* "Idle", "Rejected", "Calling", "Replied", "Printed"
    disp_agent,     \* the argument agent
    disp_paths,     \* the argument paths
    disp_prompt,    \* the prompt built for the agent, NoPrompt before
    disp_images,    \* the number of image paths handed to get_llm_response
    disp_stdout,    \* the lines written to standard output
    disp_exit,      \* exit code of the CLI: "none" (running), "0", "1"
    llm_attempt,    \* the loop variable of get_llm_response
    llm_calls,      \* calls of the completion service made so far
    llm_ret,        \* what get_llm_response returned
    llm_outcomes,   \* how each completion call ended: "returned", "raised"
    \* ---- an invocation of execute ----
    exe_pc,         \* "Idle", a branch of execute, "Done"
    exe_call,       \* the argument plan_json and the folder as it was
    exe_files,      \* the regular files below the folder
    exe_dirs,       \* the directories below the folder, the folder included
    exe_todo,       \* the loop steps still to run
    exe_count,      \* the counter moved / count
    exe_effects,    \* the changes made and the routines called, in order
    exe_stdout,     \* the messages printed
    exe_error,      \* the uncaught exception, "none" without one
    exe_exit,       \* exit code of the CLI: "none" (running), "0", "1"
    \* ---- an invocation of the command organize or rename ----
    cmd_pc,         \* where the command stands: "Idle", "Moving", "Renaming", "Done"
    cmd_call,       \* the command, its --confirm flag and the tree it started on
    cmd_files,      \* the regular files that exist
    cmd_dirs,       \* the directories that exist
    cmd_todo,       \* the steps of the loop still to run
    cmd_count,      \* moved, count
    cmd_effects,    \* the changes made to the tree, in order
    cmd_stdout,     \* what the command has printed
    cmd_error,      \* the exception that ended the command, "none" when none did
    cmd_exit,       \* the exit code, "none" until the command ends
    \* ---- a call of extract_code_block ----
    ext_pc,         \* "Idle", "Returned"
    ext_parts,      \* the prose and the code blocks the response is made of
    ext_response,   \* the argument response
    ext_ret,        \* the pair returned; found is FALSE for (None, None)
    \* ---- a session of installs and resolver calls ----
    sess_start,     \* the commands present when the session began
    sess_installed, \* the tools install has installed since
    sess_stdout,    \* what the last install printed
    sess_exit       \* the exit code of the last install, "none" before

execVars == <<entry, fn, command, pc, trace, spawns, spawn_timeout, spawn_path,
              child, ret, tmp_exists>>

envVars == <<installed, loaded>>
resVars == <<res_pc, res_tool_list, res_result, res_probed>>
regVars == <<reg_pc, reg_tool, reg_target, reg_supported>>
convVars == <<conv_pc, conv_ext, conv_target, conv_exact, conv_tool_list, conv_capable,
              conv_tool, conv_adapter, conv_raw, conv_output_path, conv_resolves,
              conv_need_install, conv_adapter_calls, conv_shell, conv_ok, conv_spawns,
              conv_written, conv_exit>>

catVars == <<cat_pc, cat_filename, cat_result>>

\* the groups added to the model after the executor, resolver and registry
dataVars == <<data_pc, data_call, data_ret, data_back>>

dispVars == <<disp_pc, disp_agent, disp_paths, disp_prompt, disp_images,
              disp_stdout, disp_exit, llm_attempt, llm_calls, llm_ret, llm_outcomes>>

exeVars == <<exe_pc, exe_call, exe_files, exe_dirs, exe_todo, exe_count, exe_effects,
             exe_stdout, exe_error, exe_exit>>

cmdVars == <<cmd_pc, cmd_call, cmd_files, cmd_dirs, cmd_todo, cmd_count, cmd_effects,
            cmd_stdout, cmd_error, cmd_exit>>

extVars == <<ext_pc, ext_parts, ext_response, ext_ret>>

sessVars == <<sess_start, sess_installed, sess_stdout, sess_exit>>

otherVars == <<catVars, dataVars, dispVars, exeVars, cmdVars, extVars, sessVars>>

vars == <<execVars, envVars, resVars, regVars, convVars, otherVars>>

\* what the executor leaves alone
ExecOnly == UNCHANGED <<envVars, resVars, regVars, convVars, otherVars>>

(***************************************************************************)
(* Bounds of the model.                                                    *)
(***************************************************************************)
\* commands are concatenations of at most MaxTokens words of Vocabulary
MaxTokens == 2
\* the resolver is called with every list of at most MaxCand identifiers
MaxCand == 2
\* the JSON lists converted to CSV hold at most MaxRecords objects
MaxRecords == 2
MaxPlanFiles == 2
\* the parts of a response handed to extract_code_block
MaxParts == 2

(***************************************************************************)
(* Characters and the string operations of the code.                       *)
(***************************************************************************)
UpperCase == <<"A", "B", "C", "D", "E", "F", "G", "H", "I", "J", "K", "L", "M",
               "N", "O", "P", "Q", "R", "S", "T", "U", "V", "W", "X", "Y", "Z">>
LowerCase == <<"a", "b", "c", "d", "e", "f", "g", "h", "i", "j", "k", "l", "m",
               "n", "o", "p", "q", "r", "s", "t", "u", "v", "w", "x", "y", "z">>

\* the characters str.strip() removes and \s matches
Whitespace == {" ", "\t", "\n"}

lower_char(c) ==
    IF \E i \in DOMAIN UpperCase : UpperCase[i] = c
    THEN LowerCase[CHOOSE i \in DOMAIN UpperCase : UpperCase[i] = c]
    ELSE c

\* str.lower()
lower(s) == [i \in 1..Len(s) |-> lower_char(s[i])]

RECURSIVE lstrip(_)
lstrip(s) == IF s # <<>> /\ Head(s) \in Whitespace THEN lstrip(Tail(s)) ELSE s

RECURSIVE rstrip(_)
rstrip(s) ==
    IF s # <<>> /\ s[Len(s)] \in Whitespace
    THEN rstrip(SubSeq(s, 1, Len(s) - 1))
    ELSE s

\* str.strip()
strip(s) == rstrip(lstrip(s))

\* Python's  p in s  on strings
Contains(p, s) ==
    \E i \in 0..(Len(s) - Len(p)) : SubSeq(s, i + 1, i + Len(p)) = p

\* s has the word w at position i
StartsAt(s, w, i) ==
    /\ i + Len(w) - 1 <= Len(s)
    /\ SubSeq(s, i, i + Len(w) - 1) = w

(***************************************************************************)
(* The safety rule set.                                                    *)
(***************************************************************************)
DANGEROUS_PATTERNS == <<
    <<"r", "m", " ", "-", "r", "f", " ", "/">>,                               \* "rm -rf /"
    <<"r", "m", " ", "-", "r", "f", " ", "~">>,                               \* "rm -rf ~"
    <<"m", "k", "f", "s">>,                                                   \* "mkfs"
    <<"d", "d", " ", "i", "f", "=">>,                                         \* "dd if="
    <<":", "(", ")", "{">>,                                                   \* ":(){"
    <<"c", "h", "m", "o", "d", " ", "-", "R", " ", "7", "7", "7", " ", "/">>, \* "chmod -R 777 /"
    <<">", " ", "/", "d", "e", "v", "/", "s", "d", "a">>,                     \* "> /dev/sda"
    <<"s", "h", "u", "t", "d", "o", "w", "n">>,                               \* "shutdown"
    <<"r", "e", "b", "o", "o", "t">> >>                                       \* "reboot"

\* Both regular expressions have the shape  <word>\s+.*\|\s*(sh|bash)  and are
\* compiled with re.IGNORECASE; a regex is given by its word and its shells.
DANGEROUS_REGEXES == <<
    [word |-> <<"c", "u", "r", "l">>, shells |-> {<<"s", "h">>, <<"b", "a", "s", "h">>}],
    [word |-> <<"w", "g", "e", "t">>, shells |-> {<<"s", "h">>, <<"b", "a", "s", "h">>}] >>

\* r.search(s): some substring of s matches  word \s+ .* \| \s* (sh|bash),
\* letters compared without regard to case; "." matches all but a newline.
\*   i: start of the word      k: first position after \s+
\*   p: position of "|"        q: start of the shell name
re_search(r, s) ==
    LET t == lower(s)
        n == Len(t)
        w == Len(r.word)
    IN \E i \in 1..n :
         /\ StartsAt(t, r.word, i)
         /\ \E k \in (i + w + 1)..(n + 1) :
              /\ \A j \in (i + w)..(k - 1) : t[j] \in Whitespace
              /\ \E p \in k..n :
                   /\ t[p] = "|"
                   /\ \A j \in k..(p - 1) : t[j] # "\n"
                   /\ \E q \in (p + 1)..n :
                        /\ \A j \in (p + 1)..(q - 1) : t[j] \in Whitespace
                        /\ \E sh \in r.shells : StartsAt(t, sh, q)

\* A faulty filter: the rules are tried on the command as given, neither
\* lower-cased nor trimmed.
blocked_by_filter_raw(cmd) ==
    \/ \E i \in DOMAIN DANGEROUS_PATTERNS : Contains(DANGEROUS_PATTERNS[i], cmd)
    \/ \E i \in DOMAIN DANGEROUS_REGEXES : re_search(DANGEROUS_REGEXES[i], cmd)

\* The two deny loops at the head of execute_shell_command: the command is
\* lower-cased and trimmed, then every literal pattern and every regex is tried.
blocked_by_filter(cmd) ==
    LET cmd_lower == strip(lower(cmd))
    IN \/ \E i \in DOMAIN DANGEROUS_PATTERNS : Contains(DANGEROUS_PATTERNS[i], cmd_lower)
       \/ \E i \in DOMAIN DANGEROUS_REGEXES : re_search(DANGEROUS_REGEXES[i], cmd_lower)

(***************************************************************************)
(* Inputs: the commands the executor is called with.                       *)
(***************************************************************************)
Vocabulary ==
    { DANGEROUS_PATTERNS[i] : i \in DOMAIN DANGEROUS_PATTERNS } \cup
    { <<"R", "M", " ", "-", "R", "F", " ", "/">>,                              \* "RM -RF /"
      <<"S", "h", "u", "t", "d", "o", "w", "n">>,                              \* "Shutdown"
      <<"c", "u", "r", "l", " ", "h", "t", "t", "p", ":", "/", "/", "x">>,     \* "curl http://x"
      <<"C", "U", "R", "L", " ", "X">>,                                        \* "CURL X"
      <<"w", "g", "e", "t", " ", "-", "O", " ", "-", " ", "x">>,               \* "wget -O - x"
      <<"|", " ", "s", "h">>,                                                  \* "| sh"
      <<"|", "B", "A", "S", "H">>,                                             \* "|BASH"
      <<"l", "s", " ", "-", "l", "a">>,                                        \* "ls -la"
      <<"/", "t", "m", "p", "/", "x">>,                                        \* "/tmp/x"
      <<" ">>,
      <<"\n">> }

RECURSIVE TokenStrings(_)
TokenStrings(n) ==
    IF n = 0 THEN {<<>>}
    ELSE LET shorter == TokenStrings(n - 1)
         IN shorter \cup {s \o v : s \in shorter, v \in Vocabulary}

Commands == TokenStrings(MaxTokens)

(***************************************************************************)
(* Command Executor.                                                       *)
(***************************************************************************)
\* timeout=300 of subprocess.run in execute_shell_command
TIMEOUT_SECONDS == 300
\* subprocess.run without a timeout argument (execute_python_script)
NoTimeout == 0

\* get_local_bin_dir(), the managed local-tool directory
LOCAL_BIN_DIR == "local_bin"
\* the entries of the inherited PATH
INHERITED_PATH == "PATH"

\* A faulty environment: the local-tool directory appended, not prepended.
shell_env_path_appended == <<INHERITED_PATH, LOCAL_BIN_DIR>>

\* env["PATH"] = f"{get_local_bin_dir()}:{env.get('PATH', '')}"
shell_env_path == <<LOCAL_BIN_DIR, INHERITED_PATH>>

Terminal == {"Blocked", "Succeeded", "Failed", "TimedOut", "NoInterpreter"}

\* A CLI invocation starts in a fresh process.
CanStart == pc = "Idle"

\* the function f is entered with argument c
Enter(e, f, c) ==
    /\ entry' = e
    /\ fn' = f
    /\ command' = c
    /\ pc' = "Pending"
    /\ trace' = <<"Pending">>
    /\ spawns' = 0
    /\ spawn_timeout' = NoTimeout
    /\ spawn_path' = <<>>
    /\ child' = "none"
    /\ ret' = "None"
    /\ tmp_exists' = FALSE
    /\ ExecOnly

\* the caller ends without calling either function
Skip(e, c) ==
    /\ entry' = e
    /\ fn' = "none"
    /\ command' = c
    /\ pc' = "NotRun"
    /\ trace' = <<>>
    /\ spawns' = 0
    /\ spawn_timeout' = NoTimeout
    /\ spawn_path' = <<>>
    /\ child' = "none"
    /\ ret' = "None"
    /\ tmp_exists' = FALSE
    /\ ExecOnly

\* execute_shell_command(command) called directly (convert's adapters, tests)
call_shell ==
    /\ CanStart
    /\ \E c \in Commands : Enter("direct", "shell", c)

\* ask: the language and the code come from extract_code_block, which returns
\* a stripped, non-empty code or (None, None)
ask ==
    /\ CanStart
    /\ \E lang \in {"python", "bash", "none"} :
         \E code \in {c \in Commands : strip(c) = c} :
           /\ (lang = "none") <=> (code = <<>>)
           /\ IF lang = "python" THEN Enter("ask", "script", code)
              ELSE IF lang = "bash" THEN Enter("ask", "shell", code)
              ELSE Skip("ask", code)

\* execute with a plan whose action is "run"
execute_run ==
    /\ CanStart
    /\ \E language \in {"python", "bash", "other"} :
         \E code \in Commands :
           IF code = <<>> THEN Skip("execute", code)
           ELSE IF language = "python" THEN Enter("execute", "script", code)
           ELSE IF language = "bash" THEN Enter("execute", "shell", code)
           ELSE Skip("execute", code)

\* execute_shell_command up to subprocess.run: the deny loops, then the spawn
shell_check_and_spawn ==
    /\ pc = "Pending"
    /\ fn = "shell"
    /\ IF blocked_by_filter(command)
       THEN /\ pc' = "Blocked"
            /\ ret' = "False"
            /\ trace' = Append(trace, "Blocked")
            /\ UNCHANGED <<spawns, spawn_timeout, spawn_path, child>>
       ELSE /\ pc' = "Running"
            /\ trace' = Append(trace, "Running")
            /\ spawns' = spawns + 1
            /\ spawn_timeout' = TIMEOUT_SECONDS
            /\ spawn_path' = shell_env_path
            /\ child' = "running"
            /\ UNCHANGED ret
    /\ UNCHANGED <<entry, fn, command, tmp_exists>>
    /\ ExecOnly

\* execute_python_script up to subprocess.run: the temporary file is written,
\* the interpreter is looked up (found or not), then the spawn
script_spawn ==
    /\ pc = "Pending"
    /\ fn = "script"
    /\ tmp_exists' = TRUE
    /\ \E python_exe \in BOOLEAN :
         IF ~python_exe
         THEN /\ pc' = "NoInterpreter"
              /\ ret' = "False"
              /\ trace' = Append(trace, "NoInterpreter")
              /\ UNCHANGED <<spawns, spawn_timeout, spawn_path, child>>
         ELSE /\ pc' = "Running"
              /\ trace' = Append(trace, "Running")
              /\ spawns' = spawns + 1
              /\ spawn_timeout' = NoTimeout
              /\ spawn_path' = <<INHERITED_PATH>>
              /\ child' = "running"
              /\ UNCHANGED ret
    /\ UNCHANGED <<entry, fn, command>>
    /\ ExecOnly

\* the function returns after the child ended: the finally clause of
\* execute_python_script removes the temporary file
Finish(outcome, value, status) ==
    /\ pc' = outcome
    /\ ret' = value
    /\ trace' = Append(trace, outcome)
    /\ child' = status
    /\ tmp_exists' = FALSE
    /\ ExecOnly
    /\ UNCHANGED <<entry, fn, command, spawns, spawn_timeout, spawn_path>>

\* the child exits with status 0
child_exit_zero ==
    /\ pc = "Running"
    /\ child = "running"
    /\ Finish("Succeeded", "True", "exited_0")

\* A faulty handler: subprocess.run without check=True, so that a non-zero
\* exit status is taken for success.
child_exit_nonzero_unchecked ==
    /\ pc = "Running"
    /\ child = "running"
    /\ Finish("Succeeded", "True", "exited_nonzero")

\* the child exits with another status: subprocess.CalledProcessError
child_exit_nonzero ==
    /\ pc = "Running"
    /\ child = "running"
    /\ Finish("Failed", "False", "exited_nonzero")

\* the child is still running when the timeout expires: it is killed,
\* subprocess.TimeoutExpired. A child that never exits on its own is a
\* behaviour in which neither child_exit action is ever taken.
timeout_expired ==
    /\ pc = "Running"
    /\ child = "running"
    /\ spawn_timeout # NoTimeout
    /\ Finish("TimedOut", "False", "killed")

ExecIdle ==
    /\ entry = "none"
    /\ fn = "none"
    /\ command = <<>>
    /\ pc = "Idle"
    /\ trace = <<>>
    /\ spawns = 0
    /\ spawn_timeout = NoTimeout
    /\ spawn_path = <<>>
    /\ child = "none"
    /\ ret = "None"
    /\ tmp_exists = FALSE

\* the function has returned (or was never called) and the CLI process exits;
\* the next invocation is a new process
cli_exit ==
    /\ pc \in Terminal \cup {"NotRun"}
    /\ entry' = "none"
    /\ fn' = "none"
    /\ command' = <<>>
    /\ pc' = "Idle"
    /\ trace' = <<>>
    /\ spawns' = 0
    /\ spawn_timeout' = NoTimeout
    /\ spawn_path' = <<>>
    /\ child' = "none"
    /\ ret' = "None"
    /\ tmp_exists' = FALSE
    /\ ExecOnly

(***************************************************************************)
(* Capability Registry: the output formats of each tool.                   *)
(***************************************************************************)
\* bmp, gif, heic, jpeg, jpg, pdf, pict, png, tif, tiff
SIPS_FORMATS ==
    {
      <<"b", "m", "p">>, <<"g", "i", "f">>, <<"h", "e", "i", "c">>, <<"j", "p", "e", "g">>,
      <<"j", "p", "g">>, <<"p", "d", "f">>, <<"p", "i", "c", "t">>, <<"p", "n", "g">>,
      <<"t", "i", "f">>, <<"t", "i", "f", "f">> }

\* aac, aif, aiff, caf, m4a, wav
AFCONVERT_FORMATS ==
    {
      <<"a", "a", "c">>, <<"a", "i", "f">>, <<"a", "i", "f", "f">>, <<"c", "a", "f">>,
      <<"m", "4", "a">>, <<"w", "a", "v">> }

\* doc, docx, html, odt, rtf, rtfd, txt, webarchive, wordml
TEXTUTIL_FORMATS ==
    {
      <<"d", "o", "c">>, <<"d", "o", "c", "x">>, <<"h", "t", "m", "l">>, <<"o", "d", "t">>,
      <<"r", "t", "f">>, <<"r", "t", "f", "d">>, <<"t", "x", "t">>,
      <<"w", "e", "b", "a", "r", "c", "h", "i", "v", "e">>, <<"w", "o", "r", "d", "m", "l">> }

\* docx, epub, html, md, pdf, rst, rtf, tex, txt
PANDOC_FORMATS ==
    {
      <<"d", "o", "c", "x">>, <<"e", "p", "u", "b">>, <<"h", "t", "m", "l">>, <<"m", "d">>,
      <<"p", "d", "f">>, <<"r", "s", "t">>, <<"r", "t", "f">>, <<"t", "e", "x">>, <<"t", "x", "t">> }

\* aac, avi, flac, gif, m4a, mkv, mov, mp3, mp4, ogg, wav, webm
FFMPEG_FORMATS ==
    {
      <<"a", "a", "c">>, <<"a", "v", "i">>, <<"f", "l", "a", "c">>, <<"g", "i", "f">>,
      <<"m", "4", "a">>, <<"m", "k", "v">>, <<"m", "o", "v">>, <<"m", "p", "3">>, <<"m", "p", "4">>,
      <<"o", "g", "g">>, <<"w", "a", "v">>, <<"w", "e", "b", "m">> }

\* bmp, gif, ico, jpeg, jpg, pdf, png, svg, tiff, webp
MAGICK_FORMATS ==
    {
      <<"b", "m", "p">>, <<"g", "i", "f">>, <<"i", "c", "o">>, <<"j", "p", "e", "g">>,
      <<"j", "p", "g">>, <<"p", "d", "f">>, <<"p", "n", "g">>, <<"s", "v", "g">>,
      <<"t", "i", "f", "f">>, <<"w", "e", "b", "p">> }

\* bmp, gif, heic, heif, ico, jpeg, jpg, pdf, png, tif, tiff, webp
PILLOW_FORMATS ==
    {
      <<"b", "m", "p">>, <<"g", "i", "f">>, <<"h", "e", "i", "c">>, <<"h", "e", "i", "f">>,
      <<"i", "c", "o">>, <<"j", "p", "e", "g">>, <<"j", "p", "g">>, <<"p", "d", "f">>,
      <<"p", "n", "g">>, <<"t", "i", "f">>, <<"t", "i", "f", "f">>, <<"w", "e", "b", "p">> }

\* aac, aiff, flac, m4a, mp3, ogg, wav
PYDUB_FORMATS ==
    {
      <<"a", "a", "c">>, <<"a", "i", "f", "f">>, <<"f", "l", "a", "c">>, <<"m", "4", "a">>,
      <<"m", "p", "3">>, <<"o", "g", "g">>, <<"w", "a", "v">> }

\* docx
PY_DOCX_FORMATS ==
    {
      <<"d", "o", "c", "x">> }

\* html
PY_MARKDOWN_FORMATS ==
    {
      <<"h", "t", "m", "l">> }

\* pdf
PY_PDF_FORMATS ==
    {
      <<"p", "d", "f">> }

\* yaml, yml
PY_YAML_FORMATS ==
    {
      <<"y", "a", "m", "l">>, <<"y", "m", "l">> }

\* xlsx
PY_XLSX_FORMATS ==
    {
      <<"x", "l", "s", "x">> }

\* toml
PY_TOML_FORMATS ==
    {
      <<"t", "o", "m", "l">> }

\* epub
PY_EPUB_FORMATS ==
    {
      <<"e", "p", "u", "b">> }

\* A faulty registry: the target is looked up as given, not lower-cased.
tool_supports_target_case_sensitive(tool, target) ==
    IF tool = "python" THEN TRUE
    ELSE IF tool = "sips" THEN target \in SIPS_FORMATS
    ELSE IF tool = "afconvert" THEN target \in AFCONVERT_FORMATS
    ELSE IF tool = "textutil" THEN target \in TEXTUTIL_FORMATS
    ELSE IF tool = "pandoc" THEN target \in PANDOC_FORMATS
    ELSE IF tool = "ffmpeg" THEN target \in FFMPEG_FORMATS
    ELSE IF tool = "magick" THEN target \in MAGICK_FORMATS
    ELSE IF tool = "pillow" THEN target \in PILLOW_FORMATS
    ELSE IF tool = "pydub" THEN target \in PYDUB_FORMATS
    ELSE IF tool = "py_docx" THEN target \in PY_DOCX_FORMATS
    ELSE IF tool = "py_markdown" THEN target \in PY_MARKDOWN_FORMATS
    ELSE IF tool = "py_pdf" THEN target \in PY_PDF_FORMATS
    ELSE IF tool = "py_yaml" THEN target \in PY_YAML_FORMATS
    ELSE IF tool = "py_xlsx" THEN target \in PY_XLSX_FORMATS
    ELSE IF tool = "py_toml" THEN target \in PY_TOML_FORMATS
    ELSE IF tool = "py_epub" THEN target \in PY_EPUB_FORMATS
    ELSE FALSE

\* _tool_supports_target(tool, target)
tool_supports_target(tool, target) ==
    LET t == lower(target)
    IN IF tool = "python" THEN TRUE
       ELSE IF tool = "sips" THEN t \in SIPS_FORMATS
       ELSE IF tool = "afconvert" THEN t \in AFCONVERT_FORMATS
       ELSE IF tool = "textutil" THEN t \in TEXTUTIL_FORMATS
       ELSE IF tool = "pandoc" THEN t \in PANDOC_FORMATS
       ELSE IF tool = "ffmpeg" THEN t \in FFMPEG_FORMATS
       ELSE IF tool = "magick" THEN t \in MAGICK_FORMATS
       ELSE IF tool = "pillow" THEN t \in PILLOW_FORMATS
       ELSE IF tool = "pydub" THEN t \in PYDUB_FORMATS
       ELSE IF tool = "py_docx" THEN t \in PY_DOCX_FORMATS
       ELSE IF tool = "py_markdown" THEN t \in PY_MARKDOWN_FORMATS
       ELSE IF tool = "py_pdf" THEN t \in PY_PDF_FORMATS
       ELSE IF tool = "py_yaml" THEN t \in PY_YAML_FORMATS
       ELSE IF tool = "py_xlsx" THEN t \in PY_XLSX_FORMATS
       ELSE IF tool = "py_toml" THEN t \in PY_TOML_FORMATS
       ELSE IF tool = "py_epub" THEN t \in PY_EPUB_FORMATS
       ELSE FALSE

(***************************************************************************)
(* Tool Resolver.                                                          *)
(***************************************************************************)
\* check_command_availability(cmd): an executable of that name is in the
\* local-tool directory or on the search path; inst is the set of such names
\* A faulty prober: the answer is the one of the start of the session.
check_command_availability_cached(cmd, inst) == cmd \in sess_start

check_command_availability(cmd, inst) == cmd \in inst

\* A faulty branch table: sips is looked up like an external binary.
resolve_branch_sips_probed(tool, inst, flags) ==
    LET avail(cmd) == check_command_availability(cmd, inst)
    IN IF tool = "python" THEN [ok |-> TRUE, probes |-> <<>>]
       ELSE IF tool = "sips" THEN [ok |-> avail("sips"), probes |-> <<"sips">>]
       ELSE IF tool = "afconvert" THEN [ok |-> TRUE, probes |-> <<>>]
       ELSE IF tool = "textutil" THEN [ok |-> TRUE, probes |-> <<>>]
       ELSE IF tool = "ffmpeg" THEN [ok |-> avail("ffmpeg"), probes |-> <<"ffmpeg">>]
       ELSE IF tool = "magick" THEN
            [ok |-> avail("magick") \/ avail("convert"),
             probes |-> IF avail("magick") THEN <<"magick">> ELSE <<"magick", "convert">>]
       ELSE IF tool = "pandoc" THEN [ok |-> avail("pandoc"), probes |-> <<"pandoc">>]
       ELSE IF tool = "pillow" THEN [ok |-> "_HAS_PILLOW" \in flags, probes |-> <<>>]
       ELSE IF tool = "pydub" THEN [ok |-> "_HAS_PYDUB" \in flags, probes |-> <<>>]
       ELSE IF tool = "py_docx" THEN [ok |-> "_HAS_PYTHON_DOCX" \in flags, probes |-> <<>>]
       ELSE IF tool = "py_markdown" THEN [ok |-> "_HAS_MARKDOWN" \in flags, probes |-> <<>>]
       ELSE IF tool = "py_pdf" THEN [ok |-> "_HAS_FPDF" \in flags, probes |-> <<>>]
       ELSE IF tool = "py_yaml" THEN [ok |-> "_HAS_PYYAML" \in flags, probes |-> <<>>]
       ELSE IF tool = "py_xlsx" THEN [ok |-> "_HAS_OPENPYXL" \in flags, probes |-> <<>>]
       ELSE IF tool = "py_toml" THEN [ok |-> "_HAS_TOML" \in flags, probes |-> <<>>]
       ELSE IF tool = "py_epub" THEN [ok |-> "_HAS_EBOOKLIB" \in flags, probes |-> <<>>]
       ELSE [ok |-> FALSE, probes |-> <<>>]

\* The if/elif chain in the loop of _resolve_tool, for one element of the
\* list: whether a branch returns the tool, and the names the prober was
\* called with ("and"/"or" evaluate their right side only when needed).
resolve_branch(tool, inst, flags) ==
    LET avail(cmd) == check_command_availability(cmd, inst)
    IN IF tool = "python" THEN [ok |-> TRUE, probes |-> <<>>]
       ELSE IF tool = "sips" THEN [ok |-> TRUE, probes |-> <<>>]
       ELSE IF tool = "afconvert" THEN [ok |-> TRUE, probes |-> <<>>]
       ELSE IF tool = "textutil" THEN [ok |-> TRUE, probes |-> <<>>]
       ELSE IF tool = "ffmpeg" THEN [ok |-> avail("ffmpeg"), probes |-> <<"ffmpeg">>]
       ELSE IF tool = "magick" THEN
            [ok |-> avail("magick") \/ avail("convert"),
             probes |-> IF avail("magick") THEN <<"magick">> ELSE <<"magick", "convert">>]
       ELSE IF tool = "pandoc" THEN [ok |-> avail("pandoc"), probes |-> <<"pandoc">>]
       ELSE IF tool = "pillow" THEN [ok |-> "_HAS_PILLOW" \in flags, probes |-> <<>>]
       ELSE IF tool = "pydub" THEN [ok |-> "_HAS_PYDUB" \in flags, probes |-> <<>>]
       ELSE IF tool = "py_docx" THEN [ok |-> "_HAS_PYTHON_DOCX" \in flags, probes |-> <<>>]
       ELSE IF tool = "py_markdown" THEN [ok |-> "_HAS_MARKDOWN" \in flags, probes |-> <<>>]
       ELSE IF tool = "py_pdf" THEN [ok |-> "_HAS_FPDF" \in flags, probes |-> <<>>]
       ELSE IF tool = "py_yaml" THEN [ok |-> "_HAS_PYYAML" \in flags, probes |-> <<>>]
       ELSE IF tool = "py_xlsx" THEN [ok |-> "_HAS_OPENPYXL" \in flags, probes |-> <<>>]
       ELSE IF tool = "py_toml" THEN [ok |-> "_HAS_TOML" \in flags, probes |-> <<>>]
       ELSE IF tool = "py_epub" THEN [ok |-> "_HAS_EBOOKLIB" \in flags, probes |-> <<>>]
       ELSE [ok |-> FALSE, probes |-> <<>>]

\* the loop of _resolve_tool from element i on; "None" is Python's None
RECURSIVE resolve_from(_, _, _, _, _)
resolve_from(candidates, i, inst, flags, probes) ==
    IF i > Len(candidates) THEN [tool |-> "None", probed |-> probes]
    ELSE LET b == resolve_branch(candidates[i], inst, flags)
         IN IF b.ok
            THEN [tool |-> candidates[i], probed |-> probes \o b.probes]
            ELSE resolve_from(candidates, i + 1, inst, flags, probes \o b.probes)

\* A faulty loop: the result is overwritten instead of returned, so the last
\* available candidate wins.
RECURSIVE resolve_last_from(_, _, _, _, _)
resolve_last_from(candidates, i, inst, flags, found) ==
    IF i > Len(candidates) THEN found
    ELSE LET b == resolve_branch(candidates[i], inst, flags)
         IN resolve_last_from(candidates, i + 1, inst, flags,
                [tool |-> IF b.ok THEN candidates[i] ELSE found.tool,
                 probed |-> found.probed \o b.probes])

resolve_tool_last_wins(candidates, inst, flags) ==
    resolve_last_from(candidates, 1, inst, flags, [tool |-> "None", probed |-> <<>>])

\* _resolve_tool(tool_list)
resolve_tool(candidates, inst, flags) == resolve_from(candidates, 1, inst, flags, <<>>)

(***************************************************************************)
(* Conversion Dispatcher: the candidate list of convert.                   *)
(***************************************************************************)
EXTENSION_CATEGORIES ==
    \* .bmp .gif .heic .heif .ico .jpeg .jpg .png .svg .tiff .webp
    "Images" :> {
        <<".", "b", "m", "p">>, <<".", "g", "i", "f">>, <<".", "h", "e", "i", "c">>,
        <<".", "h", "e", "i", "f">>, <<".", "i", "c", "o">>, <<".", "j", "p", "e", "g">>,
        <<".", "j", "p", "g">>, <<".", "p", "n", "g">>, <<".", "s", "v", "g">>,
        <<".", "t", "i", "f", "f">>, <<".", "w", "e", "b", "p">> } @@
    \* .doc .docx .epub .md .odt .pages .pdf .rst .rtf .tex .txt
    "Documents" :> {
        <<".", "d", "o", "c">>, <<".", "d", "o", "c", "x">>, <<".", "e", "p", "u", "b">>,
        <<".", "m", "d">>, <<".", "o", "d", "t">>, <<".", "p", "a", "g", "e", "s">>,
        <<".", "p", "d", "f">>, <<".", "r", "s", "t">>, <<".", "r", "t", "f">>,
        <<".", "t", "e", "x">>, <<".", "t", "x", "t">> } @@
    \* .csv .numbers .ods .tsv .xls .xlsx
    "Spreadsheets" :> {
        <<".", "c", "s", "v">>, <<".", "n", "u", "m", "b", "e", "r", "s">>, <<".", "o", "d", "s">>,
        <<".", "t", "s", "v">>, <<".", "x", "l", "s">>, <<".", "x", "l", "s", "x">> } @@
    \* .aac .flac .m4a .mp3 .ogg .opus .wav .wma
    "Audio" :> {
        <<".", "a", "a", "c">>, <<".", "f", "l", "a", "c">>, <<".", "m", "4", "a">>,
        <<".", "m", "p", "3">>, <<".", "o", "g", "g">>, <<".", "o", "p", "u", "s">>,
        <<".", "w", "a", "v">>, <<".", "w", "m", "a">> } @@
    \* .avi .flv .m4v .mkv .mov .mp4 .webm .wmv
    "Video" :> {
        <<".", "a", "v", "i">>, <<".", "f", "l", "v">>, <<".", "m", "4", "v">>,
        <<".", "m", "k", "v">>, <<".", "m", "o", "v">>, <<".", "m", "p", "4">>,
        <<".", "w", "e", "b", "m">>, <<".", "w", "m", "v">> } @@
    \* .7z .bz2 .dmg .gz .iso .rar .tar .xz .zip
    "Archives" :> {
        <<".", "7", "z">>, <<".", "b", "z", "2">>, <<".", "d", "m", "g">>, <<".", "g", "z">>,
        <<".", "i", "s", "o">>, <<".", "r", "a", "r">>, <<".", "t", "a", "r">>, <<".", "x", "z">>,
        <<".", "z", "i", "p">> } @@
    \* .c .cpp .css .go .h .html .java .js .py .rb .rs .sh .swift .ts
    "Code" :> {
        <<".", "c">>, <<".", "c", "p", "p">>, <<".", "c", "s", "s">>, <<".", "g", "o">>,
        <<".", "h">>, <<".", "h", "t", "m", "l">>, <<".", "j", "a", "v", "a">>, <<".", "j", "s">>,
        <<".", "p", "y">>, <<".", "r", "b">>, <<".", "r", "s">>, <<".", "s", "h">>,
        <<".", "s", "w", "i", "f", "t">>, <<".", "t", "s">> } @@
    \* .db .json .sql .sqlite .toml .xml .yaml .yml
    "Data" :> {
        <<".", "d", "b">>, <<".", "j", "s", "o", "n">>, <<".", "s", "q", "l">>,
        <<".", "s", "q", "l", "i", "t", "e">>, <<".", "t", "o", "m", "l">>, <<".", "x", "m", "l">>,
        <<".", "y", "a", "m", "l">>, <<".", "y", "m", "l">> } @@
    \* .key .odp .ppt .pptx
    "Presentations" :> {
        <<".", "k", "e", "y">>, <<".", "o", "d", "p">>, <<".", "p", "p", "t">>,
        <<".", "p", "p", "t", "x">> } @@
    \* .ai .fig .psd .sketch .xd
    "Design" :> {
        <<".", "a", "i">>, <<".", "f", "i", "g">>, <<".", "p", "s", "d">>,
        <<".", "s", "k", "e", "t", "c", "h">>, <<".", "x", "d">> }

CONVERSION_MAP ==
    <<".", "j", "s", "o", "n", "-", ">", ".", "c", "s", "v">> :> <<"python">> @@                             \* .json->.csv
    <<".", "c", "s", "v", "-", ">", ".", "j", "s", "o", "n">> :> <<"python">> @@                             \* .csv->.json
    <<".", "j", "s", "o", "n", "-", ">", ".", "y", "a", "m", "l">> :> <<"py_yaml", "python">> @@             \* .json->.yaml
    <<".", "j", "s", "o", "n", "-", ">", ".", "y", "m", "l">> :> <<"py_yaml", "python">> @@                  \* .json->.yml
    <<".", "y", "a", "m", "l", "-", ">", ".", "j", "s", "o", "n">> :> <<"py_yaml", "python">> @@             \* .yaml->.json
    <<".", "y", "m", "l", "-", ">", ".", "j", "s", "o", "n">> :> <<"py_yaml", "python">> @@                  \* .yml->.json
    <<".", "j", "s", "o", "n", "-", ">", ".", "x", "l", "s", "x">> :> <<"py_xlsx", "python">> @@             \* .json->.xlsx
    <<".", "c", "s", "v", "-", ">", ".", "x", "l", "s", "x">> :> <<"py_xlsx", "python">> @@                  \* .csv->.xlsx
    <<".", "x", "l", "s", "x", "-", ">", ".", "c", "s", "v">> :> <<"py_xlsx", "python">> @@                  \* .xlsx->.csv
    <<".", "x", "l", "s", "x", "-", ">", ".", "j", "s", "o", "n">> :> <<"py_xlsx", "python">> @@             \* .xlsx->.json
    <<".", "j", "s", "o", "n", "-", ">", ".", "t", "o", "m", "l">> :> <<"py_toml", "python">> @@             \* .json->.toml
    <<".", "t", "o", "m", "l", "-", ">", ".", "j", "s", "o", "n">> :> <<"py_toml", "python">> @@             \* .toml->.json
    <<".", "p", "n", "g", "-", ">", ".", "j", "p", "g">> :> <<"sips", "magick", "pillow">> @@                \* .png->.jpg
    <<".", "j", "p", "g", "-", ">", ".", "p", "n", "g">> :> <<"sips", "magick", "pillow">> @@                \* .jpg->.png
    <<".", "p", "n", "g", "-", ">", ".", "w", "e", "b", "p">> :> <<"magick", "pillow">> @@                   \* .png->.webp
    <<".", "w", "e", "b", "p", "-", ">", ".", "p", "n", "g">> :> <<"magick", "sips", "pillow">> @@           \* .webp->.png
    <<".", "p", "n", "g", "-", ">", ".", "b", "m", "p">> :> <<"sips", "magick", "pillow">> @@                \* .png->.bmp
    <<".", "b", "m", "p", "-", ">", ".", "p", "n", "g">> :> <<"sips", "magick", "pillow">> @@                \* .bmp->.png
    <<".", "p", "n", "g", "-", ">", ".", "g", "i", "f">> :> <<"sips", "magick", "pillow">> @@                \* .png->.gif
    <<".", "g", "i", "f", "-", ">", ".", "p", "n", "g">> :> <<"sips", "magick", "pillow">> @@                \* .gif->.png
    <<".", "p", "n", "g", "-", ">", ".", "t", "i", "f", "f">> :> <<"sips", "magick", "pillow">> @@           \* .png->.tiff
    <<".", "t", "i", "f", "f", "-", ">", ".", "p", "n", "g">> :> <<"sips", "magick", "pillow">> @@           \* .tiff->.png
    <<".", "p", "n", "g", "-", ">", ".", "i", "c", "o">> :> <<"magick", "pillow">> @@                        \* .png->.ico
    <<".", "j", "p", "g", "-", ">", ".", "i", "c", "o">> :> <<"magick", "pillow">> @@                        \* .jpg->.ico
    <<".", "j", "p", "g", "-", ">", ".", "w", "e", "b", "p">> :> <<"magick", "pillow">> @@                   \* .jpg->.webp
    <<".", "w", "e", "b", "p", "-", ">", ".", "j", "p", "g">> :> <<"magick", "sips", "pillow">> @@           \* .webp->.jpg
    <<".", "j", "p", "g", "-", ">", ".", "b", "m", "p">> :> <<"sips", "magick", "pillow">> @@                \* .jpg->.bmp
    <<".", "b", "m", "p", "-", ">", ".", "j", "p", "g">> :> <<"sips", "magick", "pillow">> @@                \* .bmp->.jpg
    <<".", "j", "p", "g", "-", ">", ".", "g", "i", "f">> :> <<"sips", "magick", "pillow">> @@                \* .jpg->.gif
    <<".", "g", "i", "f", "-", ">", ".", "j", "p", "g">> :> <<"sips", "magick", "pillow">> @@                \* .gif->.jpg
    <<".", "j", "p", "g", "-", ">", ".", "t", "i", "f", "f">> :> <<"sips", "magick", "pillow">> @@           \* .jpg->.tiff
    <<".", "t", "i", "f", "f", "-", ">", ".", "j", "p", "g">> :> <<"sips", "magick", "pillow">> @@           \* .tiff->.jpg
    <<".", "h", "e", "i", "c", "-", ">", ".", "j", "p", "g">> :> <<"sips", "magick", "pillow">> @@           \* .heic->.jpg
    <<".", "h", "e", "i", "c", "-", ">", ".", "p", "n", "g">> :> <<"sips", "magick", "pillow">> @@           \* .heic->.png
    <<".", "h", "e", "i", "f", "-", ">", ".", "j", "p", "g">> :> <<"sips", "magick", "pillow">> @@           \* .heif->.jpg
    <<".", "h", "e", "i", "f", "-", ">", ".", "p", "n", "g">> :> <<"sips", "magick", "pillow">> @@           \* .heif->.png
    <<".", "p", "n", "g", "-", ">", ".", "p", "d", "f">> :> <<"sips", "magick", "pillow">> @@                \* .png->.pdf
    <<".", "j", "p", "g", "-", ">", ".", "p", "d", "f">> :> <<"sips", "magick", "pillow">> @@                \* .jpg->.pdf
    <<".", "w", "e", "b", "p", "-", ">", ".", "g", "i", "f">> :> <<"magick", "pillow">> @@                   \* .webp->.gif
    <<".", "g", "i", "f", "-", ">", ".", "w", "e", "b", "p">> :> <<"magick", "pillow">> @@                   \* .gif->.webp
    <<".", "w", "a", "v", "-", ">", ".", "a", "a", "c">> :> <<"afconvert", "ffmpeg", "pydub">> @@            \* .wav->.aac
    <<".", "w", "a", "v", "-", ">", ".", "m", "4", "a">> :> <<"afconvert", "ffmpeg", "pydub">> @@            \* .wav->.m4a
    <<".", "m", "p", "3", "-", ">", ".", "w", "a", "v">> :> <<"ffmpeg", "afconvert", "pydub">> @@            \* .mp3->.wav
    <<".", "w", "a", "v", "-", ">", ".", "m", "p", "3">> :> <<"ffmpeg", "pydub">> @@                         \* .wav->.mp3
    <<".", "m", "p", "3", "-", ">", ".", "f", "l", "a", "c">> :> <<"ffmpeg", "pydub">> @@                    \* .mp3->.flac
    <<".", "f", "l", "a", "c", "-", ">", ".", "m", "p", "3">> :> <<"ffmpeg", "pydub">> @@                    \* .flac->.mp3
    <<".", "m", "p", "3", "-", ">", ".", "o", "g", "g">> :> <<"ffmpeg", "pydub">> @@                         \* .mp3->.ogg
    <<".", "o", "g", "g", "-", ">", ".", "m", "p", "3">> :> <<"ffmpeg", "pydub">> @@                         \* .ogg->.mp3
    <<".", "w", "a", "v", "-", ">", ".", "f", "l", "a", "c">> :> <<"ffmpeg", "pydub">> @@                    \* .wav->.flac
    <<".", "f", "l", "a", "c", "-", ">", ".", "w", "a", "v">> :> <<"ffmpeg", "pydub">> @@                    \* .flac->.wav
    <<".", "w", "a", "v", "-", ">", ".", "o", "g", "g">> :> <<"ffmpeg", "pydub">> @@                         \* .wav->.ogg
    <<".", "o", "g", "g", "-", ">", ".", "w", "a", "v">> :> <<"ffmpeg", "pydub">> @@                         \* .ogg->.wav
    <<".", "m", "4", "a", "-", ">", ".", "m", "p", "3">> :> <<"ffmpeg", "pydub">> @@                         \* .m4a->.mp3
    <<".", "m", "4", "a", "-", ">", ".", "w", "a", "v">> :> <<"ffmpeg", "pydub">> @@                         \* .m4a->.wav
    <<".", "a", "a", "c", "-", ">", ".", "m", "p", "3">> :> <<"ffmpeg", "pydub">> @@                         \* .aac->.mp3
    <<".", "a", "a", "c", "-", ">", ".", "w", "a", "v">> :> <<"ffmpeg", "pydub">> @@                         \* .aac->.wav
    <<".", "m", "p", "4", "-", ">", ".", "m", "p", "3">> :> <<"ffmpeg">> @@                                  \* .mp4->.mp3
    <<".", "m", "p", "4", "-", ">", ".", "w", "a", "v">> :> <<"ffmpeg">> @@                                  \* .mp4->.wav
    <<".", "m", "p", "4", "-", ">", ".", "a", "v", "i">> :> <<"ffmpeg">> @@                                  \* .mp4->.avi
    <<".", "m", "p", "4", "-", ">", ".", "m", "k", "v">> :> <<"ffmpeg">> @@                                  \* .mp4->.mkv
    <<".", "m", "p", "4", "-", ">", ".", "w", "e", "b", "m">> :> <<"ffmpeg">> @@                             \* .mp4->.webm
    <<".", "m", "p", "4", "-", ">", ".", "m", "o", "v">> :> <<"ffmpeg">> @@                                  \* .mp4->.mov
    <<".", "a", "v", "i", "-", ">", ".", "m", "p", "4">> :> <<"ffmpeg">> @@                                  \* .avi->.mp4
    <<".", "m", "k", "v", "-", ">", ".", "m", "p", "4">> :> <<"ffmpeg">> @@                                  \* .mkv->.mp4
    <<".", "m", "o", "v", "-", ">", ".", "m", "p", "4">> :> <<"ffmpeg">> @@                                  \* .mov->.mp4
    <<".", "w", "e", "b", "m", "-", ">", ".", "m", "p", "4">> :> <<"ffmpeg">> @@                             \* .webm->.mp4
    <<".", "m", "p", "4", "-", ">", ".", "g", "i", "f">> :> <<"ffmpeg">> @@                                  \* .mp4->.gif
    <<".", "t", "x", "t", "-", ">", ".", "h", "t", "m", "l">> :> <<"textutil", "pandoc", "py_markdown">> @@  \* .txt->.html
    <<".", "t", "x", "t", "-", ">", ".", "d", "o", "c", "x">> :> <<"pandoc", "py_docx">> @@                  \* .txt->.docx
    <<".", "t", "x", "t", "-", ">", ".", "p", "d", "f">> :> <<"pandoc", "py_pdf">> @@                        \* .txt->.pdf
    <<".", "d", "o", "c", "x", "-", ">", ".", "p", "d", "f">> :> <<"pandoc", "py_pdf">> @@                   \* .docx->.pdf
    <<".", "d", "o", "c", "x", "-", ">", ".", "t", "x", "t">> :> <<"pandoc", "py_docx">> @@                  \* .docx->.txt
    <<".", "m", "d", "-", ">", ".", "h", "t", "m", "l">> :> <<"pandoc", "py_markdown">> @@                   \* .md->.html
    <<".", "m", "d", "-", ">", ".", "p", "d", "f">> :> <<"pandoc", "py_pdf">> @@                             \* .md->.pdf
    <<".", "m", "d", "-", ">", ".", "d", "o", "c", "x">> :> <<"pandoc", "py_docx">> @@                       \* .md->.docx
    <<".", "h", "t", "m", "l", "-", ">", ".", "p", "d", "f">> :> <<"pandoc", "py_pdf">> @@                   \* .html->.pdf
    <<".", "h", "t", "m", "l", "-", ">", ".", "t", "x", "t">> :> <<"textutil", "pandoc">> @@                 \* .html->.txt
    <<".", "h", "t", "m", "l", "-", ">", ".", "d", "o", "c", "x">> :> <<"pandoc", "py_docx">> @@             \* .html->.docx
    <<".", "h", "t", "m", "l", "-", ">", ".", "e", "p", "u", "b">> :> <<"pandoc", "py_epub">> @@             \* .html->.epub
    <<".", "m", "d", "-", ">", ".", "e", "p", "u", "b">> :> <<"pandoc", "py_epub">>                          \* .md->.epub

\* key = f"{ext}->.{target}"
conversion_key(ext, target) == ext \o <<"-", ">", ".">> \o target

\* the category heuristic of convert, taken when the key is not in
\* CONVERSION_MAP; found is FALSE where convert exits with "Don't know how
\* to convert"
heuristic_tool_list(ext, target) ==
    LET dot_target == <<".">> \o target
        all_media == EXTENSION_CATEGORIES["Audio"] \cup EXTENSION_CATEGORIES["Video"]
        all_audio == EXTENSION_CATEGORIES["Audio"]
        all_images == EXTENSION_CATEGORIES["Images"]
        all_docs == EXTENSION_CATEGORIES["Documents"]
        all_data == EXTENSION_CATEGORIES["Data"] \cup EXTENSION_CATEGORIES["Spreadsheets"]
    IN IF ext \in all_data \/ dot_target \in all_data
       THEN [found |-> TRUE, tools |-> <<"python", "py_yaml", "py_xlsx", "py_toml">>]
       ELSE IF ext \in all_media \/ dot_target \in all_media
       THEN IF /\ (ext \in all_audio \/ dot_target \in all_audio)
               /\ ext \notin EXTENSION_CATEGORIES["Video"]
            THEN [found |-> TRUE, tools |-> <<"ffmpeg", "afconvert", "pydub">>]
            ELSE [found |-> TRUE, tools |-> <<"ffmpeg", "afconvert">>]
       ELSE IF ext \in all_images \/ dot_target \in all_images
       THEN [found |-> TRUE, tools |-> <<"sips", "magick", "pillow">>]
       ELSE IF ext \in all_docs \/ dot_target \in all_docs
       THEN [found |-> TRUE,
             tools |-> <<"textutil", "pandoc", "py_markdown", "py_pdf", "py_docx", "py_epub">>]
       ELSE [found |-> FALSE, tools |-> <<>>]

\* tool_list = CONVERSION_MAP.get(key), else the heuristic
candidate_tool_list(ext, target) ==
    LET key == conversion_key(ext, target)
    IN IF key \in DOMAIN CONVERSION_MAP
       THEN [found |-> TRUE, tools |-> CONVERSION_MAP[key]]
       ELSE heuristic_tool_list(ext, target)

\* capable_tools = [t for t in tool_list if _tool_supports_target(t, target)]
capable_tools(candidates, target) ==
    SelectSeq(candidates, LAMBDA t : tool_supports_target(t, target))

\* A faulty rescue list: the library's name instead of the tool identifier.
pdf_rescue_list_misnamed == <<"pandoc", "fpdf">>

\* the fallback for PDF targets when no candidate is capable
pdf_rescue_list == <<"pandoc", "py_pdf">>

\* convert from the key lookup to the list handed to _resolve_tool:
\* status is "ok", "NoKnownConverter" or "NoCapableTool" (both exit code 1)
plan_candidates(ext, target) ==
    LET cand == candidate_tool_list(ext, target)
        capable == capable_tools(cand.tools, target)
    IN IF ~cand.found
       THEN [status |-> "NoKnownConverter", tool_list |-> <<>>, capable |-> <<>>]
       ELSE IF capable # <<>>
       THEN [status |-> "ok", tool_list |-> cand.tools, capable |-> capable]
       ELSE IF (<<".">> \o target) \in EXTENSION_CATEGORIES["Documents"]
               /\ target = <<"p", "d", "f">>
       THEN [status |-> "ok", tool_list |-> cand.tools, capable |-> pdf_rescue_list]
       ELSE [status |-> "NoCapableTool", tool_list |-> cand.tools, capable |-> <<>>]

\* the if/elif chain of convert that runs the selected tool: the adapter a
\* tool identifier is dispatched to, "none" when no branch takes it
adapter_of(tool) ==
    IF tool = "python" THEN "_convert_data"
    ELSE IF tool = "sips" THEN "sips"
    ELSE IF tool = "afconvert" THEN "afconvert"
    ELSE IF tool = "textutil" THEN "textutil"
    ELSE IF tool = "ffmpeg" THEN "ffmpeg"
    ELSE IF tool = "pandoc" THEN "pandoc"
    ELSE IF tool = "magick" THEN "magick"
    ELSE IF tool = "pillow" THEN "_convert_with_pillow"
    ELSE IF tool = "pydub" THEN "_convert_with_pydub"
    ELSE IF tool \in {"py_docx", "py_markdown", "py_pdf", "py_epub"}
    THEN "_convert_document_python"
    ELSE IF tool \in {"py_yaml", "py_xlsx", "py_toml"} THEN "_convert_data"
    ELSE "none"

(***************************************************************************)
(* The host: what the Availability Prober and the import guards find.      *)
(***************************************************************************)
\* the external binaries _resolve_tool asks the prober for
ExternalCommands == {"ffmpeg", "magick", "convert", "pandoc"}
\* the OS-bundled converters, present on macOS only
MacCommands == {"sips", "afconvert", "textutil"}
\* the _HAS_* flags set by the guarded imports
LibraryFlags == {"_HAS_PILLOW", "_HAS_PYDUB", "_HAS_PYTHON_DOCX", "_HAS_MARKDOWN", "_HAS_FPDF",
                 "_HAS_PYYAML", "_HAS_OPENPYXL", "_HAS_TOML", "_HAS_EBOOKLIB"}

\* hosts: any set of external binaries, with or without the macOS tools
InstalledChoices == { e \cup m : e \in SUBSET ExternalCommands, m \in {{}, MacCommands} }
\* every library imported, one import failed, or none imported
LoadedChoices == {LibraryFlags, {}} \cup { LibraryFlags \ {f} : f \in LibraryFlags }

\* the tool identifiers of the registry, the resolver and the dispatch
ToolIds == {"python", "sips", "afconvert", "textutil", "ffmpeg", "magick", "pandoc", "pillow",
            "pydub", "py_docx", "py_markdown", "py_pdf", "py_yaml", "py_xlsx", "py_toml",
            "py_epub"}

EnvUnchanged == UNCHANGED <<installed, loaded>>

(***************************************************************************)
(* Calls of _resolve_tool.                                                 *)
(***************************************************************************)
\* every candidate list convert can hand to _resolve_tool before filtering
ConvertCandidateLists ==
    { CONVERSION_MAP[k] : k \in DOMAIN CONVERSION_MAP }
    \cup { <<"python", "py_yaml", "py_xlsx", "py_toml">>, <<"ffmpeg", "afconvert", "pydub">>,
           <<"ffmpeg", "afconvert">>, <<"sips", "magick", "pillow">>,
           <<"textutil", "pandoc", "py_markdown", "py_pdf", "py_docx", "py_epub">>,
           pdf_rescue_list }

\* identifiers the lists of bounded length are made of
ResolveAlphabet == {"python", "sips", "ffmpeg", "magick", "pandoc", "pillow", "py_pdf",
                    "unknown_tool"}

RECURSIVE ListsUpTo(_, _)
ListsUpTo(S, n) ==
    IF n = 0 THEN {<<>>}
    ELSE LET shorter == ListsUpTo(S, n - 1)
         IN shorter \cup { Append(l, x) : l \in shorter, x \in S }

ResolveInputs ==
    ConvertCandidateLists \cup ListsUpTo(ResolveAlphabet, MaxCand)
    \cup { <<t>> : t \in ToolIds }

ResIdle ==
    /\ res_pc = "Idle"
    /\ res_tool_list = <<>>
    /\ res_result = "unset"
    /\ res_probed = <<>>

\* _resolve_tool(tool_list) is called and returns
resolve_call ==
    /\ res_pc = "Idle"
    /\ \E l \in ResolveInputs :
         LET r == resolve_tool(l, installed, loaded)
         IN /\ res_tool_list' = l
            /\ res_result' = r.tool
            /\ res_probed' = r.probed
    /\ res_pc' = "Returned"
    /\ EnvUnchanged
    /\ UNCHANGED <<execVars, regVars, convVars, otherVars>>

\* the caller has used the result
resolve_done ==
    /\ res_pc = "Returned"
    /\ res_pc' = "Idle"
    /\ res_tool_list' = <<>>
    /\ res_result' = "unset"
    /\ res_probed' = <<>>
    /\ EnvUnchanged
    /\ UNCHANGED <<execVars, regVars, convVars, otherVars>>

(***************************************************************************)
(* Calls of _tool_supports_target.                                         *)
(***************************************************************************)
upper_char(c) ==
    IF \E i \in DOMAIN LowerCase : LowerCase[i] = c
    THEN UpperCase[CHOOSE i \in DOMAIN LowerCase : LowerCase[i] = c]
    ELSE c

\* str.upper()
upper(s) == [i \in 1..Len(s) |-> upper_char(s[i])]

\* str.capitalize() of a lower-case token
capitalize(s) == [i \in 1..Len(s) |-> IF i = 1 THEN upper_char(s[i]) ELSE s[i]]

\* every format some tool declares
DeclaredFormats ==
    UNION {SIPS_FORMATS, AFCONVERT_FORMATS, TEXTUTIL_FORMATS, PANDOC_FORMATS, FFMPEG_FORMATS,
           MAGICK_FORMATS, PILLOW_FORMATS, PYDUB_FORMATS, PY_DOCX_FORMATS, PY_MARKDOWN_FORMATS,
           PY_PDF_FORMATS, PY_YAML_FORMATS, PY_XLSX_FORMATS, PY_TOML_FORMATS, PY_EPUB_FORMATS}

\* format tokens: declared ones, undeclared ones and the empty string
FormatTokens == DeclaredFormats \cup {<<"x", "y", "z">>, <<"e", "x", "e">>, <<>>}

\* the same tokens in lower case, upper case and capitalized
SupportsTargets == FormatTokens \cup { upper(f) : f \in FormatTokens }
                   \cup { capitalize(f) : f \in FormatTokens }

SupportsTools == ToolIds \cup {"unknown_tool", "SIPS", "fpdf", ""}

RegIdle ==
    /\ reg_pc = "Idle"
    /\ reg_tool = ""
    /\ reg_target = <<>>
    /\ reg_supported = FALSE

\* _tool_supports_target(tool, target) is called and returns
supports_call ==
    /\ reg_pc = "Idle"
    /\ conv_pc = "Idle"
    /\ \E tool \in SupportsTools, target \in SupportsTargets :
         /\ reg_tool' = tool
         /\ reg_target' = target
         /\ reg_supported' = tool_supports_target(tool, target)
    /\ reg_pc' = "Returned"
    /\ EnvUnchanged
    /\ UNCHANGED <<execVars, resVars, convVars, otherVars>>

\* the caller has used the result
supports_done ==
    /\ reg_pc = "Returned"
    /\ reg_pc' = "Idle"
    /\ reg_tool' = ""
    /\ reg_target' = <<>>
    /\ reg_supported' = FALSE
    /\ EnvUnchanged
    /\ UNCHANGED <<execVars, resVars, convVars, otherVars>>

(***************************************************************************)
(* convert(input_file, target_format).                                     *)
(***************************************************************************)
\* the prefixes convert removes from the target, in the order it tries them
TARGET_PREFIXES == <<
    <<"c", "o", "n", "v", "e", "r", "t", " ", "t", "o", " ">>,
    <<"c", "o", "n", "v", "e", "r", "t", " ", "t", "o">>,
    <<"t", "o", " ">>,
    <<"a", "s", " ">>,
    <<"i", "n", "t", "o", " ">> >>

\* the for loop with break: only the first matching prefix is removed
RECURSIVE remove_prefix(_, _)
remove_prefix(s, i) ==
    IF i > Len(TARGET_PREFIXES) THEN s
    ELSE IF StartsAt(s, TARGET_PREFIXES[i], 1)
         THEN SubSeq(s, Len(TARGET_PREFIXES[i]) + 1, Len(s))
         ELSE remove_prefix(s, i + 1)

\* str.lstrip(".")
RECURSIVE lstrip_dots(_)
lstrip_dots(s) == IF s # <<>> /\ Head(s) = "." THEN lstrip_dots(Tail(s)) ELSE s

\* A faulty normalization: a leading dot is kept.
normalize_target_keep_dot(target_format) ==
    strip(remove_prefix(strip(lower(target_format)), 1))

\* target = target_format.lower().strip(); prefix removed;
\* target = target.strip().lstrip(".").strip()
normalize_target(target_format) ==
    strip(lstrip_dots(strip(remove_prefix(strip(lower(target_format)), 1))))

\* every extension of EXTENSION_CATEGORIES
CategoryExtensions == UNION { EXTENSION_CATEGORIES[c] : c \in DOMAIN EXTENSION_CATEGORIES }

\* os.path.splitext(input_file)[1] of the input files: a known extension, one
\* in upper case, an unknown one, none
ExtInputs == CategoryExtensions
             \cup {<<".", "P", "N", "G">>, <<".", "M", "d">>, <<".", "x", "y", "z">>, <<>>}

\* target_format arguments: format tokens and extension names as they are,
\* and some with the decorations of natural language
TargetFormatInputs ==
    FormatTokens \cup { Tail(e) : e \in CategoryExtensions }
    \cup { <<"t", "o", " ">> \o f : f \in {<<"j", "p", "g">>, <<"P", "D", "F">>} }
    \cup { <<".">> \o f : f \in {<<"p", "d", "f">>, <<"M", "P", "3">>} }
    \cup { <<" ", "P", "d", "f", " ">>, <<"c", "o", "n", "v", "e", "r", "t", " ", "t", "o", " ", "p", "n", "g">>,
           <<"a", "s", " ", "c", "s", "v">>, <<"i", "n", "t", "o", " ", ".", "d", "o", "c", "x">> }

\* the format names sips takes, by target
SIPS_FORMAT_ALIAS ==
    <<"j", "p", "g">> :> "jpeg" @@ <<"j", "p", "e", "g">> :> "jpeg"
    @@ <<"p", "n", "g">> :> "png" @@ <<"t", "i", "f", "f">> :> "tiff"

\* the file formats afconvert takes, by target
AFCONVERT_FORMATS_MAP ==
    <<"a", "a", "c">> :> "aac " @@ <<"m", "4", "a">> :> "m4af"
    @@ <<"w", "a", "v">> :> "WAVE" @@ <<"a", "i", "f", "f">> :> "AIFF"

\* the tools install can download
TOOLS_URLS ==
    "ffmpeg" :> "https://evermeet.cx/ffmpeg/ffmpeg-7.1.zip"
    @@ "pandoc" :> "https://github.com/jgm/pandoc/releases/download/3.6.3/pandoc-3.6.3-x86_64-macOS.zip"

\* the branches of the dispatch that build a command for execute_shell_command
ShellAdapters == {"sips", "afconvert", "textutil", "ffmpeg", "pandoc", "magick"}

\* the format lookup of the sips, afconvert and textutil branches; the other
\* branches have none
adapter_has_format(adapter, target) ==
    IF adapter = "sips" THEN target \in DOMAIN SIPS_FORMAT_ALIAS
    ELSE IF adapter = "afconvert" THEN target \in DOMAIN AFCONVERT_FORMATS_MAP
    ELSE IF adapter = "textutil" THEN target \in TEXTUTIL_FORMATS
    ELSE TRUE

\* A faulty report: the first capable tool, installable or not.
need_install_first_candidate(capable) == IF capable # <<>> THEN capable[1] ELSE "none"

\* needed = [t for t in capable_tools if t in TOOLS_URLS]; needed[0] is
\* printed after [NEED_INSTALL], "none" when needed is empty
need_install(capable) ==
    LET needed == SelectSeq(capable, LAMBDA t : t \in DOMAIN TOOLS_URLS)
    IN IF needed # <<>> THEN needed[1] ELSE "none"

\* the input file is INPUT_STEM followed by its extension
INPUT_STEM == <<"f">>

\* output_path = os.path.splitext(input_file)[0] + f".{target}"
output_path(target) == INPUT_STEM \o <<".">> \o target

\* the ways a target X can be written: X, .X, to X, as X, into X, convert to X
TargetWrappers == {<<>>, <<".">>, <<"t", "o", " ">>, <<"a", "s", " ">>, <<"i", "n", "t", "o", " ">>,
                   <<"c", "o", "n", "v", "e", "r", "t", " ", "t", "o", " ">>}

\* the targets written in those ways
WrappedTokens == {<<"j", "p", "g">>, <<"p", "d", "f">>, <<"w", "a", "v">>, <<"c", "s", "v">>}

\* each in lower case, in upper case and capitalized, bare and between blanks
WrappedTargetInputs ==
    LET written == { w \o x : w \in TargetWrappers, x \in WrappedTokens }
        cased == written \cup { upper(s) : s \in written } \cup { capitalize(s) : s \in written }
    IN cased \cup { <<" ">> \o s \o <<" ", " ">> : s \in cased }

\* the extensions of the files converted with such a target
WrappedExtInputs == {<<".", "p", "n", "g">>, <<".", "m", "p", "4">>, <<".", "m", "p", "3">>,
                     <<".", "j", "s", "o", "n">>, <<".", "t", "x", "t">>}

\* the arguments of convert: the extension of input_file and target_format
ConvertInputs ==
    (ExtInputs \X TargetFormatInputs) \cup (WrappedExtInputs \X WrappedTargetInputs)

ConvIdle ==
    /\ conv_pc = "Idle"
    /\ conv_ext = <<>>
    /\ conv_target = <<>>
    /\ conv_exact = FALSE
    /\ conv_tool_list = <<>>
    /\ conv_capable = <<>>
    /\ conv_tool = "unset"
    /\ conv_adapter = "none"
    /\ conv_raw = <<>>
    /\ conv_output_path = <<>>
    /\ conv_resolves = 0
    /\ conv_need_install = "none"
    /\ conv_adapter_calls = 0
    /\ conv_shell = "none"
    /\ conv_ok = "none"
    /\ conv_spawns = 0
    /\ conv_written = FALSE
    /\ conv_exit = "none"

\* A faulty early exit: the adapter of the first candidate is run all the same.
AdapterRunAnyway ==
    /\ conv_adapter_calls' = 1
    /\ conv_shell' = "none"
    /\ conv_ok' = "False"
    /\ conv_spawns' = 0
    /\ conv_written' = FALSE

\* nothing of the adapter phase has happened
NoAdapterYet ==
    /\ conv_adapter_calls' = 0
    /\ conv_shell' = "none"
    /\ conv_ok' = "none"
    /\ conv_spawns' = 0
    /\ conv_written' = FALSE

\* convert fails before a tool is selected: typer.Exit(1)
ConvertExit(status, e, t, exact, cands, capable) ==
    /\ conv_pc' = status
    /\ conv_ext' = e
    /\ conv_target' = t
    /\ conv_exact' = exact
    /\ conv_tool_list' = cands
    /\ conv_capable' = capable
    /\ conv_tool' = "unset"
    /\ conv_adapter' = "none"
    /\ conv_output_path' = IF status = "FileNotFound" THEN <<>> ELSE output_path(t)
    /\ conv_resolves' = IF status = "ToolUnavailable" THEN 1 ELSE 0
    /\ conv_need_install' = IF status = "ToolUnavailable" THEN need_install(capable) ELSE "none"
    /\ NoAdapterYet
    /\ conv_exit' = "1"

\* convert from the existence test to the branch that runs the selected tool
convert ==
    /\ conv_pc = "Idle"
    /\ reg_pc = "Idle"
    /\ \E exists \in BOOLEAN, input \in ConvertInputs :
         LET file_ext == input[1]
             target_format == input[2]
             e == lower(file_ext)
             t == normalize_target(target_format)
             p == plan_candidates(e, t)
             exact == conversion_key(e, t) \in DOMAIN CONVERSION_MAP
             r == resolve_tool(p.capable, installed, loaded)
         IN /\ conv_raw' = target_format
            /\ IF ~exists
               THEN ConvertExit("FileNotFound", <<>>, <<>>, FALSE, <<>>, <<>>)
               ELSE IF p.status # "ok"
               THEN ConvertExit(p.status, e, t, exact, p.tool_list, p.capable)
               ELSE IF r.tool = "None"
               THEN ConvertExit("ToolUnavailable", e, t, exact, p.tool_list, p.capable)
               ELSE /\ conv_pc' = "Dispatched"
                    /\ conv_ext' = e
                    /\ conv_target' = t
                    /\ conv_exact' = exact
                    /\ conv_tool_list' = p.tool_list
                    /\ conv_capable' = p.capable
                    /\ conv_tool' = r.tool
                    /\ conv_adapter' = adapter_of(r.tool)
                    /\ conv_output_path' = output_path(t)
                    /\ conv_resolves' = 1
                    /\ conv_need_install' = "none"
                    /\ NoAdapterYet
                    /\ conv_exit' = "none"
    /\ EnvUnchanged
    /\ UNCHANGED <<execVars, resVars, regVars, otherVars>>

\* the branch of the selected tool has run; convert ends
AdapterEnd(status, calls, shell, ok, spawned, written, code) ==
    /\ conv_pc' = status
    /\ conv_adapter_calls' = calls
    /\ conv_shell' = shell
    /\ conv_ok' = ok
    /\ conv_spawns' = spawned
    /\ conv_written' = written
    /\ conv_exit' = code
    /\ UNCHANGED <<conv_ext, conv_target, conv_exact, conv_tool_list, conv_capable, conv_tool,
                   conv_adapter, conv_raw, conv_output_path, conv_resolves, conv_need_install>>

\* the branches for sips, afconvert, textutil, ffmpeg, pandoc and magick:
\* the format lookup, then execute_shell_command(cmd), whose result is not
\* used: success = True whatever became of the command. A command that
\* failed or was killed may have left a partial output file.
adapter_shell ==
    /\ conv_pc = "Dispatched"
    /\ conv_adapter \in ShellAdapters
    /\ IF ~adapter_has_format(conv_adapter, conv_target)
       THEN AdapterEnd("AdapterFormatUnsupported", 0, "none", "none", 0, FALSE, "1")
       ELSE \E outcome \in {"Blocked", "Succeeded", "Failed", "TimedOut"}, partial \in BOOLEAN :
              AdapterEnd("Finished", 1, outcome, "none",
                         IF outcome = "Blocked" THEN 0 ELSE 1,
                         IF outcome = "Succeeded" THEN TRUE
                         ELSE outcome # "Blocked" /\ partial,
                         "0")
    /\ EnvUnchanged
    /\ UNCHANGED <<execVars, resVars, regVars, otherVars>>

\* the branches for python, pillow, pydub and the py_ tools: the in-process
\* routine returns True, or False (typer.Exit(1))
adapter_inprocess ==
    /\ conv_pc = "Dispatched"
    /\ conv_adapter \notin ShellAdapters
    /\ \E ok \in BOOLEAN, partial \in BOOLEAN :
         IF ok
         THEN AdapterEnd("Finished", 1, "none", "True", 0, TRUE, "0")
         ELSE AdapterEnd("ConversionFailed", 1, "none", "False", 0, partial, "1")
    /\ EnvUnchanged
    /\ UNCHANGED <<execVars, resVars, regVars, otherVars>>

\* the CLI process of convert exits
convert_exit ==
    /\ conv_pc \notin {"Idle", "Dispatched"}
    /\ conv_pc' = "Idle"
    /\ conv_ext' = <<>>
    /\ conv_target' = <<>>
    /\ conv_exact' = FALSE
    /\ conv_tool_list' = <<>>
    /\ conv_capable' = <<>>
    /\ conv_tool' = "unset"
    /\ conv_adapter' = "none"
    /\ conv_raw' = <<>>
    /\ conv_output_path' = <<>>
    /\ conv_resolves' = 0
    /\ conv_need_install' = "none"
    /\ NoAdapterYet
    /\ conv_exit' = "none"
    /\ EnvUnchanged
    /\ UNCHANGED <<execVars, resVars, regVars, otherVars>>

(***************************************************************************)
(* _categorize_file(filename).                                             *)
(***************************************************************************)
\* the categories in the order the dict of EXTENSION_CATEGORIES lists them
CATEGORY_ORDER == <<"Images", "Documents", "Spreadsheets", "Audio", "Video", "Archives",
                    "Code", "Data", "Presentations", "Design">>

\* the position of the last "." of a name, 0 when it has none
RECURSIVE rfind_dot(_, _)
rfind_dot(name, i) ==
    IF i = 0 THEN 0
    ELSE IF name[i] = "." THEN i
    ELSE rfind_dot(name, i - 1)

\* Path(filename).suffix for a name without directories: the part from the
\* last dot, empty when the only dot leads or ends the name
path_suffix(name) ==
    LET i == rfind_dot(name, Len(name))
    IN IF 1 < i /\ i < Len(name) THEN SubSeq(name, i, Len(name)) ELSE <<>>

\* the for loop of _categorize_file from category i on
RECURSIVE categorize_from(_, _)
categorize_from(e, i) ==
    IF i > Len(CATEGORY_ORDER) THEN "Other"
    ELSE IF e \in EXTENSION_CATEGORIES[CATEGORY_ORDER[i]] THEN CATEGORY_ORDER[i]
    ELSE categorize_from(e, i + 1)

\* A faulty lookup: the suffix is compared as written, not lower-cased.
categorize_file_case_sensitive(filename) == categorize_from(path_suffix(filename), 1)

\* _categorize_file(filename)
categorize_file(filename) == categorize_from(lower(path_suffix(filename)), 1)

\* file names: a stem (plain, dotted, empty: a hidden file) and an extension
\* (of a category, as listed or in upper case, unknown, a bare dot, none)
FilenameStems == {<<"a">>, <<"M", "y", ".", "t", "a", "r">>, <<>>}
FilenameInputs ==
    { stem \o e : stem \in FilenameStems,
                  e \in CategoryExtensions \cup { upper(x) : x \in CategoryExtensions }
                        \cup {<<".", "x", "y", "z">>, <<".">>, <<>>} }

CatIdle ==
    /\ cat_pc = "Idle"
    /\ cat_filename = <<>>
    /\ cat_result = "unset"

\* _categorize_file(filename) is called and returns
categorize_call ==
    /\ cat_pc = "Idle"
    /\ \E filename \in FilenameInputs :
         /\ cat_filename' = filename
         /\ cat_result' = categorize_file(filename)
    /\ cat_pc' = "Returned"
    /\ UNCHANGED <<execVars, envVars, resVars, regVars, convVars, dataVars, dispVars, exeVars, cmdVars, extVars, sessVars>>

\* the caller has used the result
categorize_done ==
    /\ cat_pc = "Returned"
    /\ cat_pc' = "Idle"
    /\ cat_filename' = <<>>
    /\ cat_result' = "unset"
    /\ UNCHANGED <<execVars, envVars, resVars, regVars, convVars, dataVars, dispVars, exeVars, cmdVars, extVars, sessVars>>

(***************************************************************************)
(* _convert_data(input_file, ext, target, output_path).                    *)
(* A JSON value is a record: kind "num", "str" or "null" with text, the    *)
(* characters of str(value). A flat object is a function from its keys    *)
(* (sequences of characters) to                                            *)
(* such values. A CSV file is the sequence of its lines, a line the        *)
(* sequence of its fields (an empty sequence is a blank line); the quoting *)
(* of the csv module is taken to be faithful.                              *)
(***************************************************************************)
\* the keys of the objects, in the order a dict keeps them
KEY_ORDER == << <<"a">>, <<"b">> >>

JsonScalars ==
    {[kind |-> "num", text |-> <<"1">>], [kind |-> "str", text |-> <<>>],
     [kind |-> "str", text |-> <<"x", "\r", "y">>],
     [kind |-> "null", text |-> <<"N", "o", "n", "e">>]}

\* the flat objects over the keys
FlatObjects == UNION { [S -> JsonScalars] : S \in SUBSET {<<"a">>, <<"b">>} }

\* a parsed JSON document: a list (of objects, or of primitives), a dict, a
\* scalar; or a file json.load raises on
JsonDoc(type, items, prims) == [type |-> type, items |-> items, prims |-> prims]

\* the JSON files holding a non-empty list of at most MaxRecords flat objects
ObjectLists == { JsonDoc("list", l, <<>>) : l \in ListsUpTo(FlatObjects, MaxRecords) \ {<<>>} }

\* an empty list, a list of primitives, a single object, a scalar, a
\* malformed file, and the lists of one object
SmallDocs ==
    { JsonDoc("list", <<>>, <<>>),
      JsonDoc("list", <<>>, <<[kind |-> "str", text |-> <<"x">>], [kind |-> "num", text |-> <<"1">>]>>),
      JsonDoc("dict", << (<<"a">> :> [kind |-> "str", text |-> <<"x">>]) >>, <<>>),
      JsonDoc("dict", << <<>> >>, <<>>),
      JsonDoc("scalar", <<>>, <<[kind |-> "num", text |-> <<"1">>]>>),
      JsonDoc("malformed", <<>>, <<>>) }
    \cup { JsonDoc("list", <<o>>, <<>>) : o \in FlatObjects }

\* what csv.writer writes for a value: '' for None, str(value) otherwise
csv_field(v) == IF v.kind = "null" THEN <<>> ELSE v.text

\* list(data[0].keys())
keys_of(obj) == SelectSeq(KEY_ORDER, LAMBDA k : k \in DOMAIN obj)

\* the result of a call: the value returned ("True", "False", or "raised"
\* for an exception that leaves the function), whether output_path was
\* opened for writing, the lines of a CSV written, the records of a JSON
\* written by the CSV reader
DataResult(result, written, lines, records) ==
    [result |-> result, written |-> written, lines |-> lines, records |-> records]

\* writer.writerow(row) of csv.DictWriter for the rows from i on: a row with
\* a key outside fieldnames raises ValueError, a missing key is written ''
RECURSIVE write_rows(_, _, _, _)
write_rows(items, headers, i, lines) ==
    IF i > Len(items) THEN DataResult("True", TRUE, lines, <<>>)
    ELSE IF \E k \in DOMAIN items[i] : \A j \in DOMAIN headers : headers[j] # k
    THEN DataResult("raised", TRUE, lines, <<>>)
    ELSE write_rows(items, headers, i + 1,
            Append(lines, [j \in DOMAIN headers |->
                              IF headers[j] \in DOMAIN items[i]
                              THEN csv_field(items[i][headers[j]])
                              ELSE <<>>]))

\* A faulty converter: output_path is opened before the data is examined.
json_to_csv_open_first(doc) ==
    IF doc.type = "malformed" THEN DataResult("raised", FALSE, <<>>, <<>>)
    ELSE IF doc.type = "scalar" \/ (doc.type = "list" /\ doc.items = <<>> /\ doc.prims = <<>>)
    THEN DataResult("False", TRUE, <<>>, <<>>)
    ELSE DataResult("True", TRUE, <<>>, <<>>)

\* the branch  ext == ".json" and target == "csv"
json_to_csv(doc) ==
    IF doc.type = "malformed" THEN DataResult("raised", FALSE, <<>>, <<>>)
    ELSE IF doc.type = "scalar" \/ (doc.type = "list" /\ doc.items = <<>> /\ doc.prims = <<>>)
    THEN DataResult("False", FALSE, <<>>, <<>>)
    ELSE IF doc.items = <<>>
    THEN \* a list of primitives: one column "value"
         DataResult("True", TRUE,
                    << <<<<"v", "a", "l", "u", "e">>>> >>
                    \o [i \in DOMAIN doc.prims |-> <<csv_field(doc.prims[i])>>], <<>>)
    ELSE LET headers == keys_of(doc.items[1])
         IN write_rows(doc.items, headers, 1,
                       <<headers>>)

\* reading in text mode without newline='': "\r\n" and "\r" become "\n"
RECURSIVE universal_newlines(_)
universal_newlines(s) ==
    IF s = <<>> THEN <<>>
    ELSE IF Head(s) = "\r"
    THEN IF Len(s) > 1 /\ s[2] = "\n"
         THEN <<"\n">> \o universal_newlines(Tail(Tail(s)))
         ELSE <<"\n">> \o universal_newlines(Tail(s))
    ELSE <<Head(s)>> \o universal_newlines(Tail(s))

\* the branch  ext == ".csv" and target == "json": csv.DictReader takes the
\* first line as field names and skips blank lines; json.dump writes the rows
csv_to_json(lines) ==
    IF lines = <<>> THEN DataResult("True", TRUE, <<>>, <<>>)
    ELSE LET names == [j \in DOMAIN lines[1] |-> universal_newlines(lines[1][j])]
             rows == SelectSeq(Tail(lines), LAMBDA r : r # <<>>)
         IN DataResult("True", TRUE, <<>>,
               [i \in DOMAIN rows |->
                   [k \in { names[j] : j \in DOMAIN names } |->
                       LET j == CHOOSE j \in DOMAIN names : names[j] = k
                       IN IF j <= Len(rows[i]) THEN universal_newlines(rows[i][j])
                          ELSE <<"N", "o", "n", "e">>]])

\* the branches behind a library flag: the input is read and the output is
\* written with the library; an input it cannot read raises
library_branch(readable) ==
    IF readable THEN DataResult("True", TRUE, <<>>, <<>>)
    ELSE DataResult("raised", FALSE, <<>>, <<>>)

\* _convert_data: the chain of branches on (ext, target) and the flags
convert_data(ext, target, doc, lines, readable, flags) ==
    IF ext = ".json" /\ target = "csv" THEN json_to_csv(doc)
    ELSE IF ext = ".csv" /\ target = "json" THEN csv_to_json(lines)
    ELSE IF ext = ".json" /\ target \in {"yaml", "yml"} /\ "_HAS_PYYAML" \in flags
    THEN library_branch(doc.type # "malformed")
    ELSE IF ext \in {".yaml", ".yml"} /\ target = "json" /\ "_HAS_PYYAML" \in flags
    THEN library_branch(readable)
    ELSE IF ext = ".json" /\ target = "xlsx" /\ "_HAS_OPENPYXL" \in flags
    THEN IF doc.type = "malformed" THEN DataResult("raised", FALSE, <<>>, <<>>)
         ELSE IF doc.type = "scalar"
                 \/ (doc.type = "list" /\ doc.items = <<>> /\ doc.prims = <<>>)
         THEN DataResult("False", FALSE, <<>>, <<>>)
         ELSE DataResult("True", TRUE, <<>>, <<>>)
    ELSE IF ext = ".csv" /\ target = "xlsx" /\ "_HAS_OPENPYXL" \in flags
    THEN library_branch(TRUE)
    ELSE IF ext = ".xlsx" /\ target \in {"csv", "json"} /\ "_HAS_OPENPYXL" \in flags
    THEN library_branch(readable)
    ELSE IF ext = ".json" /\ target = "toml" /\ "_HAS_TOML" \in flags
    THEN IF doc.type = "malformed" THEN DataResult("raised", FALSE, <<>>, <<>>)
         ELSE IF doc.type # "dict" THEN DataResult("False", FALSE, <<>>, <<>>)
         ELSE DataResult("True", TRUE, <<>>, <<>>)
    ELSE IF ext = ".toml" /\ target = "json" /\ "_HAS_TOML" \in flags
    THEN library_branch(readable)
    ELSE DataResult("False", FALSE, <<>>, <<>>)

\* CSV files given to the csv branches: empty, a header only, one row
CsvFiles == { <<>>, << <<<<"a">>, <<"b">>>> >>, << <<<<"a">>, <<"b">>>>, <<<<"1">>, <<>>>> >> }

DataExts == {".json", ".csv", ".yaml", ".yml", ".xlsx", ".toml", ".xml", ".sql"}
DataTargets == {"csv", "json", "yaml", "yml", "xlsx", "toml", "xml"}

\* the calls of _convert_data: ext, target, the parsed JSON input (for
\* .json), the lines of the CSV input (for .csv), whether the library can
\* read the input (for the others)
DataCall(ext, target, doc, lines, readable) ==
    [ext |-> ext, target |-> target, doc |-> doc, lines |-> lines, readable |-> readable]

NoDoc == JsonDoc("none", <<>>, <<>>)

DataInputs ==
    { DataCall(".json", "csv", d, <<>>, TRUE) : d \in ObjectLists }
    \cup { DataCall(".json", t, d, <<>>, TRUE) : t \in DataTargets, d \in SmallDocs }
    \cup { DataCall(".csv", t, NoDoc, l, TRUE) : t \in DataTargets, l \in CsvFiles }
    \cup { DataCall(e, t, NoDoc, <<>>, r) :
              e \in DataExts \ {".json", ".csv"}, t \in DataTargets, r \in BOOLEAN }

NoResult == DataResult("none", FALSE, <<>>, <<>>)

DataIdle ==
    /\ data_pc = "Idle"
    /\ data_call = DataCall("", "", NoDoc, <<>>, TRUE)
    /\ data_ret = NoResult
    /\ data_back = NoResult

\* _convert_data(input_file, ext, target, output_path) is called and returns
\* or raises
convert_data_call ==
    /\ data_pc = "Idle"
    /\ \E c \in DataInputs :
         /\ data_call' = c
         /\ data_ret' = convert_data(c.ext, c.target, c.doc, c.lines, c.readable, loaded)
    /\ data_pc' = "Returned"
    /\ UNCHANGED data_back
    /\ UNCHANGED <<execVars, envVars, resVars, regVars, convVars, catVars, dispVars, exeVars, cmdVars, extVars, sessVars>>

\* the CSV written from a JSON file is converted back:
\* _convert_data(csv_file, ".csv", "json", json_file2)
convert_data_back ==
    /\ data_pc = "Returned"
    /\ data_call.ext = ".json"
    /\ data_call.target = "csv"
    /\ data_ret.result = "True"
    /\ data_back' = convert_data(".csv", "json", NoDoc, data_ret.lines, TRUE, loaded)
    /\ data_pc' = "Back"
    /\ UNCHANGED <<data_call, data_ret>>
    /\ UNCHANGED <<execVars, envVars, resVars, regVars, convVars, catVars, dispVars, exeVars, cmdVars, extVars, sessVars>>

\* the caller has used the results
convert_data_done ==
    /\ data_pc \in {"Returned", "Back"}
    /\ data_pc' = "Idle"
    /\ data_call' = DataCall("", "", NoDoc, <<>>, TRUE)
    /\ data_ret' = NoResult
    /\ data_back' = NoResult
    /\ UNCHANGED <<execVars, envVars, resVars, regVars, convVars, catVars, dispVars, exeVars, cmdVars, extVars, sessVars>>

(***************************************************************************)
(* dispatch: one natural-language query to one LLM agent, answered with    *)
(* one JSON plan on standard output.  Replies, prompts and printed lines   *)
(* are sequences of characters.                                            *)
(***************************************************************************)
\* the character U+0060, which a TLA+ string cannot hold
GRAVE == "grave"

valid_agents == {"convert", "organize", "summarize", "rename", "command"}

\* agent in valid_agents
agent_is_valid_any(agent) == TRUE

agent_is_valid(agent) == agent \in valid_agents

\* the default of get_llm_response's retries parameter
retries == 2

\* the length of the reply excerpt the fallback plan quotes
EXCERPT_LENGTH == 200

\* the slices of the image lists handed to the vision model
FOLDER_IMAGE_LIMIT == 10
RENAME_IMAGE_LIMIT == 5

Min(a, b) == IF a <= b THEN a ELSE b

Take(s, n) == SubSeq(s, 1, Min(n, Len(s)))

startswith(s, w) == StartsAt(s, w, 1)

endswith(s, w) ==
    /\ Len(w) <= Len(s)
    /\ SubSeq(s, Len(s) - Len(w) + 1, Len(s)) = w

\* str.find(w, i), counted from 1; 0 when w does not occur from i on
find_from(s, w, i) ==
    LET at == {j \in i..Len(s) : StartsAt(s, w, j)}
    IN  IF at = {} THEN 0 ELSE CHOOSE j \in at : \A k \in at : j <= k

\* str.rfind(w), counted from 1; 0 when w does not occur
rfind(s, w) ==
    LET at == {i \in 1..Len(s) : StartsAt(s, w, i)}
    IN  IF at = {} THEN 0 ELSE CHOOSE i \in at : \A j \in at : j <= i

(***************************************************************************)
(* JSON values and json.loads / json.dumps on the characters of the        *)
(* replies: objects, arrays, strings with the escapes json.dumps writes,   *)
(* unsigned integers and the three literals.                               *)
(***************************************************************************)
JsonValue(kind, text, items) == [kind |-> kind, text |-> text, items |-> items]
JsonString(text) == JsonValue("string", text, <<>>)
JsonNumber(text) == JsonValue("number", text, <<>>)
JsonLiteral(text) == JsonValue("literal", text, <<>>)
JsonArray(items) == JsonValue("array", <<>>, items)
\* the items of an object are its members  [key, val]  in insertion order
JsonObject(items) == JsonValue("object", <<>>, items)
NoValue == JsonValue("none", <<>>, <<>>)

JSON_WHITESPACE == {" ", "\t", "\n", "\r"}
JSON_DIGITS == {"0", "1", "2", "3", "4", "5", "6", "7", "8", "9"}
JSON_LITERALS == {<<"n", "u", "l", "l">>, <<"t", "r", "u", "e">>, <<"f", "a", "l", "s", "e">>}
\* the characters a JSON string may not hold unescaped
CONTROL_CHARACTERS == {"\t", "\n", "\r"}
\* the character after a backslash, and the character it stands for
BACKSLASH == "\"" :> "\"" @@ "\\" :> "\\" @@ "/" :> "/" @@
             "n" :> "\n" @@ "t" :> "\t" @@ "r" :> "\r"

Parsed(ok, pos, val) == [ok |-> ok, pos |-> pos, val |-> val]
DecodeError == Parsed(FALSE, 0, NoValue)

RECURSIVE skip_whitespace(_, _)
skip_whitespace(s, i) ==
    IF i <= Len(s) /\ s[i] \in JSON_WHITESPACE
    THEN skip_whitespace(s, i + 1)
    ELSE i

\* dict[key] = val : a repeated key keeps its place and takes the new value
dict_set(items, key, val) ==
    IF \E i \in DOMAIN items : items[i].key = key
    THEN [i \in DOMAIN items |->
            IF items[i].key = key THEN [key |-> key, val |-> val] ELSE items[i]]
    ELSE Append(items, [key |-> key, val |-> val])

\* the concatenation of parts[lo], ..., parts[hi], by halves
RECURSIVE concat(_, _, _)
concat(parts, lo, hi) ==
    IF lo > hi THEN <<>>
    ELSE IF lo = hi THEN parts[lo]
    ELSE concat(parts, lo, (lo + hi) \div 2) \o concat(parts, (lo + hi) \div 2 + 1, hi)

\* the backslashes that stand immediately before position j, back to position i
backslashes_before(s, i, j) ==
    LET stop == {k \in (i - 1)..(j - 1) : k = i - 1 \/ s[k] # "\\"}
    IN  j - 1 - (CHOOSE k \in stop : \A m \in stop : m <= k)

\* position j of a string that starts at i follows a backslash that escapes it
is_escaped(s, i, j) ==
    /\ j > i
    /\ s[j - 1] = "\\"
    /\ backslashes_before(s, i, j) % 2 = 1

\* the characters of a string, from the one after its opening quote: up to
\* the first quote that is not escaped, each escape read as its character
scan_string(s, i) ==
    LET quotes == {j \in i..Len(s) : s[j] = "\"" /\ ~is_escaped(s, i, j)}
        end == CHOOSE j \in quotes : \A k \in quotes : j <= k
        part(j) == IF is_escaped(s, i, j) THEN <<BACKSLASH[s[j]]>>
                   ELSE IF s[j] = "\\" THEN <<>>
                   ELSE <<s[j]>>
        invalid(j) == IF is_escaped(s, i, j) THEN s[j] \notin DOMAIN BACKSLASH
                      ELSE s[j] \in CONTROL_CHARACTERS
    IN  IF quotes = {} THEN DecodeError
        ELSE IF \E j \in i..(end - 1) : invalid(j) THEN DecodeError
        ELSE Parsed(TRUE, end + 1,
                    JsonString(concat([j \in i..(end - 1) |-> part(j)], i, end - 1)))

RECURSIVE digits_end(_, _)
digits_end(s, i) ==
    IF i <= Len(s) /\ s[i] \in JSON_DIGITS THEN digits_end(s, i + 1) ELSE i

\* 0 | [1-9][0-9]* : a leading zero ends the number
scan_number(s, i) ==
    IF s[i] = "0"
    THEN Parsed(TRUE, i + 1, JsonNumber(<<"0">>))
    ELSE Parsed(TRUE, digits_end(s, i), JsonNumber(SubSeq(s, i, digits_end(s, i) - 1)))

RECURSIVE scan_once(_, _)
RECURSIVE parse_array(_, _, _)
RECURSIVE parse_object(_, _, _)

\* one value starting exactly at position i
scan_once(s, i) ==
    IF i > Len(s) THEN DecodeError
    ELSE IF s[i] = "\"" THEN scan_string(s, i + 1)
    ELSE IF s[i] = "{"
         THEN LET j == skip_whitespace(s, i + 1)
              IN  IF j <= Len(s) /\ s[j] = "}"
                  THEN Parsed(TRUE, j + 1, JsonObject(<<>>))
                  ELSE parse_object(s, j, <<>>)
    ELSE IF s[i] = "["
         THEN LET j == skip_whitespace(s, i + 1)
              IN  IF j <= Len(s) /\ s[j] = "]"
                  THEN Parsed(TRUE, j + 1, JsonArray(<<>>))
                  ELSE parse_array(s, j, <<>>)
    ELSE IF \E w \in JSON_LITERALS : StartsAt(s, w, i)
         THEN LET w == CHOOSE w \in JSON_LITERALS : StartsAt(s, w, i)
              IN  Parsed(TRUE, i + Len(w), JsonLiteral(w))
    ELSE IF s[i] \in JSON_DIGITS THEN scan_number(s, i)
    ELSE DecodeError

\* the elements of an array, from the first character of an element
parse_array(s, i, acc) ==
    LET v == scan_once(s, i)
    IN  IF ~v.ok THEN DecodeError
        ELSE LET j == skip_whitespace(s, v.pos)
                 elements == Append(acc, v.val)
             IN  IF j > Len(s) THEN DecodeError
                 ELSE IF s[j] = "]" THEN Parsed(TRUE, j + 1, JsonArray(elements))
                 ELSE IF s[j] = ","
                      THEN parse_array(s, skip_whitespace(s, j + 1), elements)
                 ELSE DecodeError

\* the members of an object, from the opening quote of a key
parse_object(s, i, acc) ==
    IF i > Len(s) \/ s[i] # "\"" THEN DecodeError
    ELSE LET k == scan_string(s, i + 1)
         IN  IF ~k.ok THEN DecodeError
             ELSE LET c == skip_whitespace(s, k.pos)
                  IN  IF c > Len(s) \/ s[c] # ":" THEN DecodeError
                      ELSE LET v == scan_once(s, skip_whitespace(s, c + 1))
                           IN  IF ~v.ok THEN DecodeError
                               ELSE LET j == skip_whitespace(s, v.pos)
                                        members == dict_set(acc, k.val.text, v.val)
                                    IN  IF j > Len(s) THEN DecodeError
                                        ELSE IF s[j] = "}"
                                             THEN Parsed(TRUE, j + 1, JsonObject(members))
                                        ELSE IF s[j] = ","
                                             THEN parse_object(s, skip_whitespace(s, j + 1), members)
                                        ELSE DecodeError

\* json.loads: one value between optional whitespace, and nothing else
json_loads(s) ==
    LET v == scan_once(s, skip_whitespace(s, 1))
    IN  IF ~v.ok THEN DecodeError
        ELSE IF skip_whitespace(s, v.pos) # Len(s) + 1 THEN DecodeError
        ELSE v

escape_char(c) ==
    IF c = "\"" THEN <<"\\", "\"">>
    ELSE IF c = "\\" THEN <<"\\", "\\">>
    ELSE IF c = "\n" THEN <<"\\", "n">>
    ELSE IF c = "\t" THEN <<"\\", "t">>
    ELSE IF c = "\r" THEN <<"\\", "r">>
    ELSE <<c>>

escape(s) == concat([j \in 1..Len(s) |-> escape_char(s[j])], 1, Len(s))

quoted(s) == <<"\"">> \o escape(s) \o <<"\"">>

RECURSIVE json_dumps(_)
RECURSIVE dumps_elements(_)
RECURSIVE dumps_members(_)

\* json.dumps(value, ensure_ascii=False): one line, separators ", " and ": "
json_dumps(v) ==
    IF v.kind = "string" THEN quoted(v.text)
    ELSE IF v.kind = "array" THEN <<"[">> \o dumps_elements(v.items) \o <<"]">>
    ELSE IF v.kind = "object" THEN <<"{">> \o dumps_members(v.items) \o <<"}">>
    ELSE v.text

dumps_elements(items) ==
    IF items = <<>> THEN <<>>
    ELSE json_dumps(Head(items)) \o
         (IF Len(items) > 1 THEN <<",", " ">> \o dumps_elements(Tail(items)) ELSE <<>>)

dumps_members(items) ==
    IF items = <<>> THEN <<>>
    ELSE quoted(Head(items).key) \o <<":", " ">> \o json_dumps(Head(items).val) \o
         (IF Len(items) > 1 THEN <<",", " ">> \o dumps_members(Tail(items)) ELSE <<>>)

(***************************************************************************)
(* get_llm_response: the reply of the completion service, or an error      *)
(* string after retries + 1 failed attempts.                               *)
(***************************************************************************)
THINK_OPEN == <<"<", "t", "h", "i", "n", "k", ">">>
THINK_CLOSE == <<"<", "/", "t", "h", "i", "n", "k", ">">>

\* re.sub(r"<think>.*?</think>", "", content, flags=DOTALL)
RECURSIVE strip_think(_)
strip_think(s) ==
    LET a == find_from(s, THINK_OPEN, 1)
        b == find_from(s, THINK_CLOSE, a + Len(THINK_OPEN))
    IN  IF a = 0 \/ b = 0 THEN s
        ELSE SubSeq(s, 1, a - 1) \o
             strip_think(SubSeq(s, b + Len(THINK_CLOSE), Len(s)))

\* what get_llm_response returns for the content of a completion
llm_content(content) == strip(strip_think(strip(content)))

\* the class the except clause puts an exception in, by its message
error_class(message) ==
    IF Contains(<<"c", "o", "n", "n", "e", "c", "t", "i", "o", "n">>, lower(message)) \/ Contains(<<"c", "o", "n", "n", "e", "c", "t">>, lower(message))
    THEN "connection"
    ELSE IF Contains(<<"t", "i", "m", "e", "o", "u", "t">>, lower(message)) THEN "timeout"
    ELSE "other"

\* the configured provider (the default)
AI_PROVIDER == <<"o", "l", "l", "a", "m", "a">>

\* what get_llm_response returns after the last failed attempt
llm_error(message) ==
    IF error_class(message) = "connection" THEN <<"E", "r", "r", "o", "r", ":", " ", "C", "a", "n", "n", "o", "t", " ", "c", "o", "n", "n", "e", "c", "t", " ", "t", "o", " ">> \o AI_PROVIDER
    ELSE IF error_class(message) = "timeout" THEN <<"E", "r", "r", "o", "r", ":", " ", "R", "e", "q", "u", "e", "s", "t", " ", "t", "i", "m", "e", "d", " ", "o", "u", "t">>
    ELSE <<"E", "r", "r", "o", "r", ":", " ">> \o message

\* a line on standard output: written by console.print (named by its
\* message) or by print (with its exact text)
ConsoleLine(msg) == [via |-> "console", msg |-> msg, text |-> <<>>]
PrintLine(text) == [via |-> "print", msg |-> "json", text |-> text]

\* the lines console.print writes in the except clause
retry_line(message) ==
    IF error_class(message) = "connection" THEN ConsoleLine("Connection failed, retrying")
    ELSE IF error_class(message) = "timeout" THEN ConsoleLine("Timeout, retrying")
    ELSE ConsoleLine("Error occurred, retrying")

final_lines(message) ==
    IF error_class(message) = "connection"
    THEN <<ConsoleLine("Error: Cannot connect")>>
    ELSE <<>>

(***************************************************************************)
(* dispatch itself.                                                        *)
(***************************************************************************)
FENCE == <<GRAVE, GRAVE, GRAVE>>

\* the reply without surrounding whitespace and Markdown fences
clean_response(response) ==
    LET stripped == strip(response)
        opened == IF startswith(stripped, FENCE)
                  THEN IF Contains(<<"\n">>, stripped)
                       THEN SubSeq(stripped, find_from(stripped, <<"\n">>, 1) + 1, Len(stripped))
                       ELSE SubSeq(stripped, Len(FENCE) + 1, Len(stripped))
                  ELSE stripped
        closed == IF endswith(opened, FENCE)
                  THEN SubSeq(opened, 1, rfind(opened, FENCE) - 1)
                  ELSE opened
    IN  strip(closed)

\* the plan dispatch prints when the reply is not JSON
fallback(cleaned) ==
    JsonObject(<<[key |-> <<"a", "c", "t", "i", "o", "n">>, val |-> JsonString(<<"n", "o", "n", "e">>)],
                 [key |-> <<"e", "x", "p", "l", "a", "n", "a", "t", "i", "o", "n">>,
                  val |-> JsonString(<<"A", "g", "e", "n", "t", " ", "c", "o", "u", "l", "d", " ", "n", "o", "t", " ", "p", "a", "r", "s", "e", " ", "r", "e", "q", "u", "e", "s", "t", ":", " ">> \o
                                     Take(cleaned, EXCERPT_LENGTH))]>>)

\* the one line dispatch prints for a reply
plan_line(response) ==
    LET cleaned == clean_response(response)
        parsed == json_loads(cleaned)
    IN  IF parsed.ok
        THEN json_dumps(parsed.val)
        ELSE json_dumps(fallback(cleaned))

\* a path argument: a folder holding some image files, a file, or nothing
Folder(images) == [kind |-> "dir", image |-> FALSE, inside |-> images]
File(image) == [kind |-> "file", image |-> image, inside |-> 0]
Missing(image) == [kind |-> "missing", image |-> image, inside |-> 0]

\* the line of the file context for one path
file_detail(p) ==
    IF p.kind = "dir" THEN "FOLDER"
    ELSE IF p.kind = "file" THEN "FILE"
    ELSE "PATH (not found)"

NoPrompt == [agent |-> "", query |-> "", file_context |-> <<>>]

\* _build_dispatch_context: agent prompt, query and file context
build_dispatch_context(agent, query, paths) ==
    [agent |-> agent, query |-> query,
     file_context |-> [i \in DOMAIN paths |-> file_detail(paths[i])]]

\* the number of image paths handed to the vision model (0: none)
image_paths(agent, paths) ==
    IF agent = "rename" /\ paths # <<>>
    THEN Min(Cardinality({i \in DOMAIN paths : paths[i].image}), RENAME_IMAGE_LIMIT)
    ELSE IF agent = "organize" /\ paths # <<>> /\ paths[1].kind = "dir"
    THEN Min(paths[1].inside, FOLDER_IMAGE_LIMIT)
    ELSE 0

AgentInputs == valid_agents \cup {"bogus_agent", "Convert", ""}

QueryInputs == {"make this a jpg"}

PathInputs ==
    {<<>>, <<Folder(0)>>, <<Folder(11)>>, <<File(TRUE)>>,
     <<File(FALSE), Missing(TRUE)>>}

\* the bodies of the replies: JSON objects, JSON of other types, text
ReplyBodies ==
    {<<"{", "\"", "a", "c", "t", "i", "o", "n", "\"", ":", " ", "\"", "c", "o", "n", "v", "e", "r", "t", "\"", "}">>, <<"{", "}">>, <<"[", "1", "]">>, <<"[", "{", "\"", "a", "c", "t", "i", "o", "n", "\"", ":", "\"", "n", "o", "n", "e", "\"", "}", "]">>,
     <<"\"", "x", "\"">>, <<"1">>, <<"n", "u", "l", "l">>, <<"U", "n", "c", "l", "e", "a", "r", " ", "r", "e", "q", "u", "e", "s", "t", ".">>, <<"a", "\"", "b", "\n", "c">>, <<>>}

\* a body as the model may send it: bare, padded, fenced, after a thought
ReplyForms(body) ==
    {body,
     <<" ">> \o body \o <<"\n">>,
     <<GRAVE, GRAVE, GRAVE, "j", "s", "o", "n", "\n">> \o body \o <<"\n", GRAVE, GRAVE, GRAVE>>,
     <<GRAVE, GRAVE, GRAVE>> \o body \o <<GRAVE, GRAVE, GRAVE>>,
     <<GRAVE, GRAVE, GRAVE, "\n">> \o body,
     <<"<", "t", "h", "i", "n", "k", ">", "t", "<", "/", "t", "h", "i", "n", "k", ">">> \o body}

Replies == UNION {ReplyForms(body) : body \in ReplyBodies}

\* the messages of the exceptions the completion call raises
ErrorMessages == {<<"C", "o", "n", "n", "e", "c", "t", "i", "o", "n", " ", "r", "e", "f", "u", "s", "e", "d">>, <<"R", "e", "q", "u", "e", "s", "t", " ", "t", "i", "m", "e", "o", "u", "t">>, <<"b", "o", "o", "m">>}

NoReply == <<>>

DispIdle ==
    /\ disp_pc = "Idle"
    /\ disp_agent = ""
    /\ disp_paths = <<>>
    /\ disp_prompt = NoPrompt
    /\ disp_images = 0
    /\ disp_stdout = <<>>
    /\ disp_exit = "none"
    /\ llm_attempt = 0
    /\ llm_calls = 0
    /\ llm_ret = NoReply
    /\ llm_outcomes = <<>>

NotDispatch ==
    UNCHANGED <<execVars, envVars, resVars, regVars, convVars, catVars, dataVars, exeVars, cmdVars, extVars, sessVars>>

\* dispatch up to its call of get_llm_response
dispatch ==
    /\ disp_pc = "Idle"
    /\ \E agent \in AgentInputs, query \in QueryInputs, paths \in PathInputs :
        /\ disp_agent' = agent
        /\ disp_paths' = paths
        /\ IF ~agent_is_valid(agent)
           THEN /\ disp_stdout' = <<ConsoleLine("Unknown agent")>>
                /\ disp_exit' = "1"
                /\ disp_pc' = "Rejected"
                /\ UNCHANGED <<disp_prompt, disp_images>>
           ELSE /\ disp_prompt' = build_dispatch_context(agent, query, paths)
                /\ disp_images' = image_paths(agent, paths)
                /\ disp_pc' = "Calling"
                /\ UNCHANGED <<disp_stdout, disp_exit>>
    /\ UNCHANGED <<llm_attempt, llm_calls, llm_ret, llm_outcomes>>
    /\ NotDispatch

\* if attempt < retries: the except clause goes round the loop again
may_retry_once_more(attempt) == attempt <= retries

may_retry(attempt) == attempt < retries

\* one attempt of get_llm_response: the completion call returns
completion_returns ==
    /\ disp_pc = "Calling"
    /\ \E content \in Replies :
        llm_ret' = llm_content(content)
    /\ llm_calls' = llm_calls + 1
    /\ llm_outcomes' = Append(llm_outcomes, "returned")
    /\ disp_pc' = "Replied"
    /\ UNCHANGED <<disp_agent, disp_paths, disp_prompt, disp_images,
                   disp_stdout, disp_exit, llm_attempt>>
    /\ NotDispatch

\* one attempt of get_llm_response: the completion call raises
completion_raises ==
    /\ disp_pc = "Calling"
    /\ llm_calls' = llm_calls + 1
    /\ llm_outcomes' = Append(llm_outcomes, "raised")
    /\ \E message \in ErrorMessages :
        IF may_retry(llm_attempt)
        THEN /\ disp_stdout' = Append(disp_stdout, retry_line(message))
             /\ llm_attempt' = llm_attempt + 1
             /\ UNCHANGED <<disp_pc, llm_ret>>
        ELSE /\ disp_stdout' = disp_stdout \o final_lines(message)
             /\ llm_ret' = llm_error(message)
             /\ disp_pc' = "Replied"
             /\ UNCHANGED llm_attempt
    /\ UNCHANGED <<disp_agent, disp_paths, disp_prompt, disp_images, disp_exit>>
    /\ NotDispatch

\* dispatch after get_llm_response: clean the reply, print one plan
dispatch_print ==
    /\ disp_pc = "Replied"
    /\ disp_stdout' = Append(disp_stdout, PrintLine(plan_line(llm_ret)))
    /\ disp_exit' = "0"
    /\ disp_pc' = "Printed"
    /\ UNCHANGED <<disp_agent, disp_paths, disp_prompt, disp_images,
                   llm_attempt, llm_calls, llm_ret, llm_outcomes>>
    /\ NotDispatch

\* the process ends; the next invocation starts afresh
dispatch_exit ==
    /\ disp_pc \in {"Rejected", "Printed"}
    /\ disp_pc' = "Idle"
    /\ disp_agent' = ""
    /\ disp_paths' = <<>>
    /\ disp_prompt' = NoPrompt
    /\ disp_images' = 0
    /\ disp_stdout' = <<>>
    /\ disp_exit' = "none"
    /\ llm_attempt' = 0
    /\ llm_calls' = 0
    /\ llm_ret' = NoReply
    /\ llm_outcomes' = <<>>
    /\ NotDispatch

(***************************************************************************)
(* execute: carry out a plan that dispatch printed.  The plan arrives as   *)
(* JSON text; the folder it works in holds files and directories, named    *)
(* by their path below the folder (a sequence of names).                   *)
(***************************************************************************)
KNOWN_ACTIONS == {<<"n", "o", "n", "e">>, <<"c", "o", "n", "v", "e", "r", "t">>, <<"r", "e", "s", "i", "z", "e">>, <<"o", "r", "g", "a", "n", "i", "z", "e">>, <<"s", "u", "m", "m", "a", "r", "i", "z", "e">>, <<"r", "e", "n", "a", "m", "e">>, <<"r", "u", "n">>}

\* dict.get(key, default) on a parsed object
dict_get(v, key, default) ==
    IF \E i \in DOMAIN v.items : v.items[i].key = key
    THEN v.items[CHOOSE i \in DOMAIN v.items : v.items[i].key = key].val
    ELSE default

\* Python's truth value of a parsed JSON value
truthy(v) ==
    IF v.kind = "string" THEN v.text # <<>>
    ELSE IF v.kind \in {"array", "object"} THEN v.items # <<>>
    ELSE IF v.kind = "number" THEN v.text # <<"0">>
    ELSE v.text = <<"t", "r", "u", "e">>

is_text(v, text) == v.kind = "string" /\ v.text = text

\* os.path.join(folder, name) below the folder: the empty name is the folder
join(path, name) == IF name = <<>> THEN path ELSE Append(path, name)

is_prefix(p, q) == Len(p) <= Len(q) /\ SubSeq(q, 1, Len(p)) = p

\* os.path.exists
exists(files, dirs, p) == p \in files \cup dirs

\* the paths of a tree after the path src in it has been renamed to dst
renamed(paths, src, dst) ==
    {p \in paths : ~is_prefix(src, p)} \cup
    {dst \o SubSeq(p, Len(src) + 1, Len(p)) : p \in {q \in paths : is_prefix(src, q)}}

\* the steps of the organize loop: one makedirs per destination, then one
\* move attempt per file listed under it
organize_steps(move_plan) ==
    concat([i \in DOMAIN move_plan.items |->
              <<[op |-> "makedirs", dest |-> move_plan.items[i].key, name |-> <<>>]>> \o
              [j \in DOMAIN move_plan.items[i].val.items |->
                 [op |-> "move", dest |-> move_plan.items[i].key,
                  name |-> move_plan.items[i].val.items[j].text]]],
           1, Len(move_plan.items))

\* the steps of the rename loop: one attempt per entry of renames
rename_steps(renames) ==
    [i \in DOMAIN renames.items |->
        [op |-> "rename", dest |-> renames.items[i].val.text, name |-> renames.items[i].key]]

\* where execute stands after its first statements, before any loop step:
\* the branch taken, the message printed, the exit code if it is decided
Outcome(branch, msg, code, error) ==
    [branch |-> branch, msg |-> msg, code |-> code, error |-> error]

\* the end of execute, reached when no branch has returned
unknown_action_accepted == Outcome("Done", "Unknown action", "0", "none")

unknown_action == Outcome("Done", "Unknown action", "1", "none")

execute_branch(parsed, files, dirs) ==
    LET plan == parsed.val
        action == dict_get(plan, <<"a", "c", "t", "i", "o", "n">>, JsonString(<<"n", "o", "n", "e">>))
        input_file == dict_get(plan, <<"i", "n", "p", "u", "t", "_", "f", "i", "l", "e">>, JsonString(<<>>))
        target_format == dict_get(plan, <<"t", "a", "r", "g", "e", "t", "_", "f", "o", "r", "m", "a", "t">>, JsonString(<<>>))
        folder == dict_get(plan, <<"f", "o", "l", "d", "e", "r">>, JsonString(<<>>))
        move_plan == dict_get(plan, <<"p", "l", "a", "n">>, JsonObject(<<>>))
        listed == dict_get(plan, <<"f", "i", "l", "e", "s">>, JsonArray(<<>>))
        renames == dict_get(plan, <<"r", "e", "n", "a", "m", "e", "s">>, JsonObject(<<>>))
        code == dict_get(plan, <<"c", "o", "d", "e">>, JsonString(<<>>))
        language == dict_get(plan, <<"l", "a", "n", "g", "u", "a", "g", "e">>, JsonString(<<>>))
    IN  IF ~parsed.ok THEN Outcome("Done", "Invalid JSON plan", "1", "none")
        ELSE IF plan.kind # "object" THEN Outcome("Done", "", "1", "AttributeError")
        ELSE IF is_text(action, <<"n", "o", "n", "e">>) THEN Outcome("Done", "explanation", "0", "none")
        ELSE IF is_text(action, <<"c", "o", "n", "v", "e", "r", "t">>) THEN
            IF ~truthy(input_file) \/ ~truthy(target_format)
            THEN Outcome("Done", "Plan missing input_file or target_format", "1", "none")
            ELSE Outcome("Convert", "", "none", "none")
        ELSE IF is_text(action, <<"r", "e", "s", "i", "z", "e">>) THEN
            IF ~truthy(input_file)
            THEN Outcome("Done", "Plan missing input_file", "1", "none")
            ELSE IF ~exists(files, dirs, <<input_file.text>>)
            THEN Outcome("Done", "File not found", "1", "none")
            ELSE Outcome("Resize", "", "none", "none")
        ELSE IF is_text(action, <<"o", "r", "g", "a", "n", "i", "z", "e">>) THEN
            IF ~truthy(folder) \/ ~truthy(move_plan)
            THEN Outcome("Done", "Plan missing folder or move plan", "1", "none")
            ELSE Outcome("Organize", "", "none", "none")
        ELSE IF is_text(action, <<"s", "u", "m", "m", "a", "r", "i", "z", "e">>) THEN
            IF ~truthy(listed)
            THEN Outcome("Done", "No files to summarize", "1", "none")
            ELSE IF ~\E i \in DOMAIN listed.items : <<listed.items[i].text>> \in files
            THEN Outcome("Done", "No readable files", "0", "none")
            ELSE Outcome("Summarize", "Summarizing", "none", "none")
        ELSE IF is_text(action, <<"r", "e", "n", "a", "m", "e">>) THEN
            IF ~truthy(renames)
            THEN Outcome("Done", "No renames needed", "0", "none")
            ELSE Outcome("Rename", "", "none", "none")
        ELSE IF is_text(action, <<"r", "u", "n">>) THEN
            IF ~truthy(code)
            THEN Outcome("Done", "No code to execute", "1", "none")
            ELSE IF is_text(language, <<"p", "y", "t", "h", "o", "n">>) THEN Outcome("RunPython", "", "none", "none")
            ELSE IF is_text(language, <<"b", "a", "s", "h">>) THEN Outcome("RunShell", "", "none", "none")
            ELSE Outcome("Done", "Unknown language", "0", "none")
        ELSE unknown_action

\* the loop steps an outcome leaves to do
steps_of(plan, branch) ==
        IF branch = "Organize" THEN organize_steps(dict_get(plan, <<"p", "l", "a", "n">>, JsonObject(<<>>)))
        ELSE IF branch = "Rename" THEN rename_steps(dict_get(plan, <<"r", "e", "n", "a", "m", "e", "s">>, JsonObject(<<>>)))
        ELSE <<>>

\* the names of the files, folders and destinations in the plans
FILE_NAMES == {<<"a">>, <<"b">>, <<"d">>}
DEST_NAMES == {<<"d">>, <<"e">>}
NEW_NAMES == {<<"a">>, <<"b">>, <<"c">>, <<>>}

Member(key, val) == [key |-> key, val |-> val]

NameList(names) == JsonArray([i \in DOMAIN names |-> JsonString(names[i])])

\* an organize plan: destinations in order, each with its list of files
OrganizePlan(entries) ==
    JsonObject(<<Member(<<"a", "c", "t", "i", "o", "n">>, JsonString(<<"o", "r", "g", "a", "n", "i", "z", "e">>)),
                 Member(<<"f", "o", "l", "d", "e", "r">>, JsonString(<<"F">>)),
                 Member(<<"p", "l", "a", "n">>, JsonObject([i \in DOMAIN entries |->
                     Member(entries[i][1], NameList(entries[i][2]))]))>>)

\* a rename plan: old names in order, each with its new name
RenamePlan(entries) ==
    JsonObject(<<Member(<<"a", "c", "t", "i", "o", "n">>, JsonString(<<"r", "e", "n", "a", "m", "e">>)),
                 Member(<<"r", "e", "n", "a", "m", "e", "s">>, JsonObject([i \in DOMAIN entries |->
                     Member(entries[i][1], JsonString(entries[i][2]))]))>>)

OrganizeEntries ==
    {<<<<d, l>>>> : d \in DEST_NAMES, l \in ListsUpTo(FILE_NAMES, MaxPlanFiles)} \cup
    {<<<<d1, l1>>, <<d2, l2>>>> :
        d1 \in DEST_NAMES, d2 \in DEST_NAMES,
        l1 \in ListsUpTo(FILE_NAMES, MaxPlanFiles),
        l2 \in ListsUpTo(FILE_NAMES, MaxPlanFiles)}

OrganizePlans ==
    {OrganizePlan(e) : e \in {x \in OrganizeEntries :
        /\ \A i, j \in DOMAIN x : i # j => x[i][1] # x[j][1]
        /\ Len(x[1][2]) + (IF Len(x) > 1 THEN Len(x[2][2]) ELSE 0) <= MaxPlanFiles}}

RenamePlans ==
    {RenamePlan(e) : e \in {x \in ListsUpTo(FILE_NAMES \X NEW_NAMES, MaxPlanFiles) :
        /\ x # <<>>
        /\ \A i, j \in DOMAIN x : i # j => x[i][1] # x[j][1]}}

\* the plans of the other actions, and plans that are no plans
OtherPlans ==
    {JsonObject(<<Member(<<"a", "c", "t", "i", "o", "n">>, JsonString(<<"n", "o", "n", "e">>)), Member(<<"e", "x", "p", "l", "a", "n", "a", "t", "i", "o", "n">>, JsonString(<<"x">>))>>),
     JsonObject(<<>>),
     JsonObject(<<Member(<<"a", "c", "t", "i", "o", "n">>, JsonString(<<"t", "e", "l", "e", "p", "o", "r", "t">>))>>),
     JsonObject(<<Member(<<"a", "c", "t", "i", "o", "n">>, JsonString(<<"N", "o", "n", "e">>))>>),
     JsonObject(<<Member(<<"a", "c", "t", "i", "o", "n">>, JsonLiteral(<<"n", "u", "l", "l">>))>>),
     JsonObject(<<Member(<<"a", "c", "t", "i", "o", "n">>, JsonArray(<<JsonString(<<"r", "u", "n">>)>>))>>),
     JsonObject(<<Member(<<"a", "c", "t", "i", "o", "n">>, JsonString(<<"c", "o", "n", "v", "e", "r", "t">>))>>),
     JsonObject(<<Member(<<"a", "c", "t", "i", "o", "n">>, JsonString(<<"c", "o", "n", "v", "e", "r", "t">>)), Member(<<"i", "n", "p", "u", "t", "_", "f", "i", "l", "e">>, JsonString(<<"a">>)),
                  Member(<<"t", "a", "r", "g", "e", "t", "_", "f", "o", "r", "m", "a", "t">>, JsonString(<<"b">>))>>),
     JsonObject(<<Member(<<"a", "c", "t", "i", "o", "n">>, JsonString(<<"r", "e", "s", "i", "z", "e">>))>>),
     JsonObject(<<Member(<<"a", "c", "t", "i", "o", "n">>, JsonString(<<"r", "e", "s", "i", "z", "e">>)), Member(<<"i", "n", "p", "u", "t", "_", "f", "i", "l", "e">>, JsonString(<<"a">>))>>),
     JsonObject(<<Member(<<"a", "c", "t", "i", "o", "n">>, JsonString(<<"o", "r", "g", "a", "n", "i", "z", "e">>)), Member(<<"f", "o", "l", "d", "e", "r">>, JsonString(<<"F">>))>>),
     JsonObject(<<Member(<<"a", "c", "t", "i", "o", "n">>, JsonString(<<"s", "u", "m", "m", "a", "r", "i", "z", "e">>)), Member(<<"f", "i", "l", "e", "s">>, JsonArray(<<>>))>>),
     JsonObject(<<Member(<<"a", "c", "t", "i", "o", "n">>, JsonString(<<"s", "u", "m", "m", "a", "r", "i", "z", "e">>)), Member(<<"f", "i", "l", "e", "s">>, NameList(<<<<"a">>, <<"b">>>>))>>),
     JsonObject(<<Member(<<"a", "c", "t", "i", "o", "n">>, JsonString(<<"r", "e", "n", "a", "m", "e">>)), Member(<<"r", "e", "n", "a", "m", "e", "s">>, JsonObject(<<>>))>>),
     JsonObject(<<Member(<<"a", "c", "t", "i", "o", "n">>, JsonString(<<"r", "u", "n">>)), Member(<<"l", "a", "n", "g", "u", "a", "g", "e">>, JsonString(<<"p", "y", "t", "h", "o", "n">>))>>),
     JsonObject(<<Member(<<"a", "c", "t", "i", "o", "n">>, JsonString(<<"r", "u", "n">>)), Member(<<"l", "a", "n", "g", "u", "a", "g", "e">>, JsonString(<<"p", "y", "t", "h", "o", "n">>)),
                  Member(<<"c", "o", "d", "e">>, JsonString(<<"x">>))>>),
     JsonObject(<<Member(<<"a", "c", "t", "i", "o", "n">>, JsonString(<<"r", "u", "n">>)), Member(<<"l", "a", "n", "g", "u", "a", "g", "e">>, JsonString(<<"b", "a", "s", "h">>)),
                  Member(<<"c", "o", "d", "e">>, JsonString(<<"x">>))>>),
     JsonObject(<<Member(<<"a", "c", "t", "i", "o", "n">>, JsonString(<<"r", "u", "n">>)), Member(<<"l", "a", "n", "g", "u", "a", "g", "e">>, JsonString(<<"r", "u", "b", "y">>)),
                  Member(<<"c", "o", "d", "e">>, JsonString(<<"x">>))>>),
     JsonArray(<<JsonNumber(<<"1">>)>>),
     JsonLiteral(<<"n", "u", "l", "l">>)}

\* arguments that are not JSON
MalformedPlans == {<<"n", "o", "t", " ", "j", "s", "o", "n", " ", "a", "t", " ", "a", "l", "l">>, <<"{", "\"", "a", "c", "t", "i", "o", "n", "\"", ":", " ", "\"", "n", "o", "n", "e", "\"">>, <<>>}

PlanInputs ==
    {json_dumps(v) : v \in OrganizePlans \cup RenamePlans \cup OtherPlans} \cup MalformedPlans

\* the folder before the invocation: a and b are files or absent; d is
\* absent, a file, an empty directory or a directory that holds  a
FolderStates ==
    {[files |-> fs \cup more.files, dirs |-> {<<>>} \cup more.dirs] :
        fs \in SUBSET {<<<<"a">>>>, <<<<"b">>>>},
        more \in {[files |-> {}, dirs |-> {}],
                  [files |-> {<<<<"d">>>>}, dirs |-> {}],
                  [files |-> {}, dirs |-> {<<<<"d">>>>}],
                  [files |-> {<<<<"d">>, <<"a">>>>}, dirs |-> {<<<<"d">>>>}]}}

NoCall == [plan_json |-> <<>>, files |-> {}, dirs |-> {}]

ExeIdle ==
    /\ exe_pc = "Idle"
    /\ exe_call = NoCall
    /\ exe_files = {}
    /\ exe_dirs = {}
    /\ exe_todo = <<>>
    /\ exe_count = 0
    /\ exe_effects = <<>>
    /\ exe_stdout = <<>>
    /\ exe_error = "none"
    /\ exe_exit = "none"

NotExecute ==
    UNCHANGED <<execVars, envVars, resVars, regVars, convVars, catVars, dataVars, dispVars, cmdVars, extVars, sessVars>>

\* execute from its entry to the first loop step or delegated call
execute ==
    /\ exe_pc = "Idle"
    /\ \E plan_json \in PlanInputs, folder \in FolderStates :
        \E parsed \in {json_loads(plan_json)} :
        \E outcome \in {execute_branch(parsed, folder.files, folder.dirs)} :
            /\ exe_call' = [plan_json |-> plan_json, files |-> folder.files, dirs |-> folder.dirs]
            /\ exe_files' = folder.files
            /\ exe_dirs' = folder.dirs
            /\ exe_pc' = outcome.branch
            /\ exe_todo' = steps_of(parsed.val, outcome.branch)
            /\ exe_stdout' = IF outcome.msg = "" THEN <<>> ELSE <<outcome.msg>>
            /\ exe_error' = outcome.error
            /\ exe_exit' = outcome.code
    /\ UNCHANGED <<exe_count, exe_effects>>
    /\ NotExecute

\* an uncaught exception ends the invocation
Raise(error) ==
    /\ exe_error' = error
    /\ exe_exit' = "1"
    /\ exe_pc' = "Done"
    /\ UNCHANGED <<exe_files, exe_dirs, exe_count, exe_effects, exe_stdout>>

\* os.makedirs(dest_dir, exist_ok=True) for the next destination
organize_makedirs ==
    /\ exe_pc = "Organize"
    /\ exe_todo # <<>>
    /\ Head(exe_todo).op = "makedirs"
    /\ exe_todo' = Tail(exe_todo)
    /\ LET dest_dir == join(<<>>, Head(exe_todo).dest)
       IN  IF dest_dir \in exe_files THEN Raise("FileExistsError")
           ELSE /\ exe_dirs' = exe_dirs \cup {dest_dir}
                /\ exe_effects' = IF dest_dir \in exe_dirs THEN exe_effects
                                  ELSE Append(exe_effects, [op |-> "makedirs", src |-> <<>>, dst |-> dest_dir])
                /\ UNCHANGED <<exe_pc, exe_files, exe_count, exe_stdout, exe_error, exe_exit>>
    /\ UNCHANGED exe_call
    /\ NotExecute

\* the body of the inner loop for the next file of the move plan
organize_move ==
    /\ exe_pc = "Organize"
    /\ exe_todo # <<>>
    /\ Head(exe_todo).op = "move"
    /\ exe_todo' = Tail(exe_todo)
    /\ LET src == join(<<>>, Head(exe_todo).name)
           dst == join(join(<<>>, Head(exe_todo).dest), Head(exe_todo).name)
       IN  IF exists(exe_files, exe_dirs, src) /\ ~exists(exe_files, exe_dirs, dst)
           THEN IF src \in exe_dirs /\ is_prefix(src, dst)
                THEN Raise("shutil.Error")
                ELSE /\ exe_files' = renamed(exe_files, src, dst)
                     /\ exe_dirs' = renamed(exe_dirs, src, dst)
                     /\ exe_count' = exe_count + 1
                     /\ exe_effects' = Append(exe_effects, [op |-> "move", src |-> src, dst |-> dst])
                     /\ UNCHANGED <<exe_pc, exe_stdout, exe_error, exe_exit>>
           ELSE UNCHANGED <<exe_pc, exe_files, exe_dirs, exe_count, exe_effects,
                            exe_stdout, exe_error, exe_exit>>
    /\ UNCHANGED exe_call
    /\ NotExecute

\* if not new_path.exists()
rename_allowed_always(files, dirs, new_path) == TRUE

rename_allowed(files, dirs, new_path) == ~exists(files, dirs, new_path)

\* the body of the rename loop for the next entry of renames
rename_step ==
    /\ exe_pc = "Rename"
    /\ exe_todo # <<>>
    /\ exe_todo' = Tail(exe_todo)
    /\ LET old_path == <<Head(exe_todo).name>>
           new_path == join(<<>>, Head(exe_todo).dest)
       IN  IF ~exists(exe_files, exe_dirs, old_path)
           THEN /\ exe_stdout' = Append(exe_stdout, "Skipped (not found)")
                /\ UNCHANGED <<exe_files, exe_dirs, exe_count, exe_effects>>
           ELSE IF rename_allowed(exe_files, exe_dirs, new_path)
           THEN /\ exe_files' = renamed(exe_files, old_path, new_path)
                /\ exe_dirs' = renamed(exe_dirs, old_path, new_path)
                /\ exe_count' = exe_count + 1
                /\ exe_effects' = Append(exe_effects, [op |-> "rename", src |-> old_path, dst |-> new_path])
                /\ exe_stdout' = Append(exe_stdout, "renamed")
           ELSE UNCHANGED <<exe_files, exe_dirs, exe_count, exe_effects, exe_stdout>>
    /\ UNCHANGED <<exe_pc, exe_call, exe_error, exe_exit>>
    /\ NotExecute

\* either loop has run out: the count is reported and execute returns
loop_done ==
    /\ exe_pc \in {"Organize", "Rename"}
    /\ exe_todo = <<>>
    /\ exe_stdout' = Append(exe_stdout, IF exe_pc = "Organize" THEN "Done. Moved" ELSE "Renamed")
    /\ exe_exit' = "0"
    /\ exe_pc' = "Done"
    /\ UNCHANGED <<exe_call, exe_files, exe_dirs, exe_todo, exe_count, exe_effects, exe_error>>
    /\ NotExecute

\* the branches that hand the plan to another routine: convert, the resize
\* with Pillow, get_llm_response, execute_python_script, execute_shell_command
delegate ==
    /\ exe_pc \in {"Convert", "Resize", "Summarize", "RunPython", "RunShell"}
    /\ \E code \in {"0", "1"} :
        /\ code = "1" => exe_pc \in {"Convert", "Resize"}
        /\ exe_exit' = code
        /\ exe_effects' =
             IF exe_pc = "Resize" /\ code = "1" THEN exe_effects
             ELSE Append(exe_effects, [op |-> exe_pc, src |-> <<>>, dst |-> <<>>])
    /\ exe_pc' = "Done"
    /\ UNCHANGED <<exe_call, exe_files, exe_dirs, exe_todo, exe_count, exe_stdout, exe_error>>
    /\ NotExecute

\* the process ends; the next invocation starts afresh
execute_exit ==
    /\ exe_pc = "Done"
    /\ exe_pc' = "Idle"
    /\ exe_call' = NoCall
    /\ exe_files' = {}
    /\ exe_dirs' = {}
    /\ exe_todo' = <<>>
    /\ exe_count' = 0
    /\ exe_effects' = <<>>
    /\ exe_stdout' = <<>>
    /\ exe_error' = "none"
    /\ exe_exit' = "none"
    /\ NotExecute

(***************************************************************************)
(* The commands organize(path, instructions, confirm) and                 *)
(* rename(paths, confirm). A path is the sequence of the names below the  *)
(* folder the command works in; cmd_files and cmd_dirs are the regular    *)
(* files and the directories that exist.                                  *)
(***************************************************************************)
\* str.replace(old, "")
RECURSIVE remove(_, _)
remove(s, old) ==
    IF Len(s) < Len(old) THEN s
    ELSE IF SubSeq(s, 1, Len(old)) = old THEN remove(SubSeq(s, Len(old) + 1, Len(s)), old)
    ELSE <<Head(s)>> \o remove(Tail(s), old)

\* response.strip().replace("```json", "").replace("```", "")
cleaned_plan(response) == remove(remove(strip(response), FENCE \o <<"j", "s", "o", "n">>), FENCE)

\* the folder names _categorize_file can return
CATEGORY_NAME ==
    [Images |-> <<"I", "m", "a", "g", "e", "s">>, Documents |-> <<"D", "o", "c", "u", "m", "e", "n", "t", "s">>, Spreadsheets |-> <<"S", "p", "r", "e", "a", "d", "s", "h", "e", "e", "t", "s">>,
     Audio |-> <<"A", "u", "d", "i", "o">>, Video |-> <<"V", "i", "d", "e", "o">>, Archives |-> <<"A", "r", "c", "h", "i", "v", "e", "s">>, Code |-> <<"C", "o", "d", "e">>,
     Data |-> <<"D", "a", "t", "a">>, Presentations |-> <<"P", "r", "e", "s", "e", "n", "t", "a", "t", "i", "o", "n", "s">>, Design |-> <<"D", "e", "s", "i", "g", "n">>,
     Other |-> <<"O", "t", "h", "e", "r">>]

\* the plan of organize without instructions: each file under its category
RECURSIVE category_plan(_, _)
category_plan(all_files, items) ==
    IF all_files = <<>> THEN JsonObject(items)
    ELSE LET f == Head(all_files)
             cat == CATEGORY_NAME[categorize_file(f)]
             sofar == dict_get(JsonObject(items), cat, JsonArray(<<>>))
         IN  category_plan(Tail(all_files),
                           dict_set(items, cat, JsonArray(Append(sofar.items, JsonString(f)))))

\* _ai_organize_plan: the reply of the model when it is a JSON object, else {}
ai_organize_plan(response) ==
    LET parsed == json_loads(cleaned_plan(response))
    IN  IF parsed.ok /\ parsed.val.kind = "object" THEN parsed.val ELSE JsonObject(<<>>)

\* if not confirm: the preview is printed and the command returns
preview_never(confirm) == FALSE

preview_only(confirm) == ~confirm

\* organize up to the loop that moves: the branch taken and what is printed
organize_branch(isdir, all_files, plan, confirm) ==
    IF ~isdir THEN Outcome("Done", <<"Directory not found">>, "1", "none")
    ELSE IF all_files = <<>> THEN Outcome("Done", <<"Folder is empty">>, "0", "none")
    ELSE IF plan.items = <<>> THEN Outcome("Done", <<"No files to move">>, "0", "none")
    ELSE IF \E i \in DOMAIN plan.items : plan.items[i].val.kind \notin {"array", "string", "object"}
    THEN Outcome("Done", <<>>, "1", "TypeError")
    ELSE IF preview_only(confirm) THEN Outcome("Done", <<"Plan:", "preview">>, "0", "none")
    ELSE Outcome("Moving", <<"Plan:">>, "none", "none")

\* old in renames, for what json.loads can return
rename_listed(renames, old) ==
    IF renames.kind = "object" THEN \E i \in DOMAIN renames.items : renames.items[i].key = old
    ELSE IF renames.kind = "array" THEN \E i \in DOMAIN renames.items : is_text(renames.items[i], old)
    ELSE IF renames.kind = "string" THEN Contains(old, renames.text)
    ELSE FALSE

\* the plan of rename: the files, in the order given, that renames gives
\* another name
rename_plan(files, renames) ==
    LET listed == SelectSeq(files, LAMBDA p : rename_listed(renames, p) /\ ~is_text(dict_get(renames, p, NoValue), p))
    IN  [i \in DOMAIN listed |->
            [op |-> "rename", name |-> listed[i], dest |-> dict_get(renames, listed[i], NoValue).text]]

\* the statements of rename that raise TypeError: the membership test on a
\* number or literal, the subscript of a list or string, the path of a new
\* name that is no string
rename_type_error(files, renames) ==
    \/ renames.kind \in {"number", "literal"}
    \/ /\ renames.kind \in {"array", "string"}
       /\ \E i \in DOMAIN files : rename_listed(renames, files[i])
    \/ /\ renames.kind = "object"
       /\ \E i \in DOMAIN files :
            /\ rename_listed(renames, files[i])
            /\ dict_get(renames, files[i], NoValue).kind # "string"

\* rename up to the loop that renames
rename_branch(files, parsed, confirm) ==
    IF files = <<>> THEN Outcome("Done", <<"No valid files">>, "1", "none")
    ELSE IF ~parsed.ok THEN Outcome("Done", <<"Analyzing", "AI failed to plan renames">>, "0", "none")
    ELSE IF rename_type_error(files, parsed.val) THEN Outcome("Done", <<"Analyzing">>, "1", "TypeError")
    ELSE IF rename_plan(files, parsed.val) = <<>>
    THEN Outcome("Done", <<"Analyzing", "No renames needed">>, "0", "none")
    ELSE IF preview_only(confirm) THEN Outcome("Done", <<"Analyzing", "Plan:", "preview">>, "0", "none")
    ELSE Outcome("Renaming", <<"Analyzing", "Plan:">>, "none", "none")

\* os.listdir in some order, the hidden names and the directories left out
listdir_files(files) ==
    LET names == {p[1] : p \in {q \in files : Len(q) = 1}}
    IN  {l \in ListsUpTo(names, Cardinality(names)) :
            /\ Len(l) = Cardinality(names)
            /\ \A i, j \in DOMAIN l : i # j => l[i] # l[j]}

\* the folder the path names may not exist
CommandFolders == FolderStates \cup {[files |-> {}, dirs |-> {}]}

\* what the model answers to organize: a move plan, a plan in a fence, a
\* plan whose value is no list, text that is no JSON, a list
OrganizeReplies ==
    {json_dumps(dict_get(p, <<"p", "l", "a", "n">>, JsonObject(<<>>))) : p \in OrganizePlans} \cup
    {FENCE \o <<"j", "s", "o", "n", "\n", "{", "\"", "e", "\"", ":", " ", "[", "\"", "a", "\"", ",", " ", "\"", "b", "\"", "]", "}", "\n">> \o FENCE, <<"{", "\"", "d", "\"", ":", " ", "1", "}">>, <<"n", "o", " ", "p", "l", "a", "n">>, <<"[", "\"", "a", "\"", "]">>, <<"{", "}">>}

\* what the model answers to rename
RenameMaps ==
    {JsonObject([i \in DOMAIN e |-> Member(e[i][1], JsonString(e[i][2]))]) :
        e \in {x \in ListsUpTo({<<"a">>, <<"b">>} \X NEW_NAMES, 2) :
                 \A i, j \in DOMAIN x : i # j => x[i][1] # x[j][1]}}

RenameReplies ==
    {json_dumps(m) : m \in RenameMaps} \cup
    {FENCE \o <<"j", "s", "o", "n", "\n", "{", "\"", "a", "\"", ":", " ", "\"", "c", "\"", "}", "\n">> \o FENCE, <<"{", "\"", "a", "\"", ":", " ", "1", "}">>, <<"n", "o", " ", "p", "l", "a", "n">>, <<"[", "\"", "a", "\"", "]">>, <<"[", "\"", "c", "\"", "]">>, <<"1">>, <<"\"", "a", "b", "\"">>}

RenamePaths == ListsUpTo({<<"a">>, <<"b">>, <<"d">>}, 2)

NoCommand == [name |-> "none", confirm |-> FALSE, files |-> {}, dirs |-> {}]

CmdIdle ==
    /\ cmd_pc = "Idle"
    /\ cmd_call = NoCommand
    /\ cmd_files = {}
    /\ cmd_dirs = {}
    /\ cmd_todo = <<>>
    /\ cmd_count = 0
    /\ cmd_effects = <<>>
    /\ cmd_stdout = <<>>
    /\ cmd_error = "none"
    /\ cmd_exit = "none"

NotCommand ==
    UNCHANGED <<execVars, envVars, resVars, regVars, convVars, catVars, dataVars, dispVars, exeVars, extVars, sessVars>>

Begin(name, confirm, folder, outcome, todo) ==
    /\ cmd_call' = [name |-> name, confirm |-> confirm, files |-> folder.files, dirs |-> folder.dirs]
    /\ cmd_files' = folder.files
    /\ cmd_dirs' = folder.dirs
    /\ cmd_pc' = outcome.branch
    /\ cmd_todo' = IF outcome.branch = "Done" THEN <<>> ELSE todo
    /\ cmd_stdout' = outcome.msg
    /\ cmd_error' = outcome.error
    /\ cmd_exit' = outcome.code
    /\ UNCHANGED <<cmd_count, cmd_effects>>

\* organize from its entry to the first step of the loop that moves, with
\* instructions (a reply of the model is the plan) or without
organize ==
    /\ cmd_pc = "Idle"
    /\ \E source \in {[given |-> FALSE, reply |-> <<>>]} \cup
                     {[given |-> TRUE, reply |-> r] : r \in OrganizeReplies} :
       \E answered \in {IF source.given THEN ai_organize_plan(source.reply) ELSE JsonObject(<<>>)} :
       \E folder \in CommandFolders, confirm \in BOOLEAN :
       \E all_files \in listdir_files(folder.files) :
       \E plan \in {IF source.given THEN answered ELSE category_plan(all_files, <<>>)} :
           Begin("organize", confirm, folder,
                 organize_branch(<<>> \in folder.dirs, all_files, plan, confirm),
                 organize_steps(plan))
    /\ NotCommand

\* rename from its entry to the first step of the loop that renames
rename ==
    /\ cmd_pc = "Idle"
    /\ \E reply \in RenameReplies :
       \E parsed \in {json_loads(cleaned_plan(reply))} :
       \E folder \in FolderStates, confirm \in BOOLEAN, paths \in RenamePaths :
       \E files \in {SelectSeq(paths, LAMBDA p : <<p>> \in folder.files)} :
           Begin("rename", confirm, folder, rename_branch(files, parsed, confirm),
                 IF parsed.ok /\ ~rename_type_error(files, parsed.val)
                 THEN rename_plan(files, parsed.val) ELSE <<>>)
    /\ NotCommand

\* an uncaught exception ends the command
Abort(error) ==
    /\ cmd_error' = error
    /\ cmd_exit' = "1"
    /\ cmd_pc' = "Done"
    /\ UNCHANGED <<cmd_files, cmd_dirs, cmd_count, cmd_effects, cmd_stdout>>

\* one step of the loop of organize: os.makedirs(dest_dir, exist_ok=True)
\* for the next folder, or the move of the next file
organize_apply ==
    /\ cmd_pc = "Moving"
    /\ cmd_todo # <<>>
    /\ cmd_todo' = Tail(cmd_todo)
    /\ LET step == Head(cmd_todo)
           dest_dir == join(<<>>, step.dest)
           src == join(<<>>, step.name)
           dst == join(dest_dir, step.name)
       IN  IF step.op = "makedirs"
           THEN IF dest_dir \in cmd_files THEN Abort("FileExistsError")
                ELSE /\ cmd_dirs' = cmd_dirs \cup {dest_dir}
                     /\ cmd_effects' = IF dest_dir \in cmd_dirs THEN cmd_effects
                                       ELSE Append(cmd_effects, [op |-> "makedirs", src |-> <<>>, dst |-> dest_dir])
                     /\ UNCHANGED <<cmd_pc, cmd_files, cmd_count, cmd_stdout, cmd_error, cmd_exit>>
           ELSE IF exists(cmd_files, cmd_dirs, src) /\ ~exists(cmd_files, cmd_dirs, dst)
           THEN IF src \in cmd_dirs /\ is_prefix(src, dst) THEN Abort("shutil.Error")
                ELSE /\ cmd_files' = renamed(cmd_files, src, dst)
                     /\ cmd_dirs' = renamed(cmd_dirs, src, dst)
                     /\ cmd_count' = cmd_count + 1
                     /\ cmd_effects' = Append(cmd_effects, [op |-> "move", src |-> src, dst |-> dst])
                     /\ UNCHANGED <<cmd_pc, cmd_stdout, cmd_error, cmd_exit>>
           ELSE UNCHANGED <<cmd_pc, cmd_files, cmd_dirs, cmd_count, cmd_effects,
                            cmd_stdout, cmd_error, cmd_exit>>
    /\ UNCHANGED cmd_call
    /\ NotCommand

\* one step of the loop of rename: os.rename unless the new path exists
rename_apply ==
    /\ cmd_pc = "Renaming"
    /\ cmd_todo # <<>>
    /\ cmd_todo' = Tail(cmd_todo)
    /\ LET old_path == <<Head(cmd_todo).name>>
           new_path == join(<<>>, Head(cmd_todo).dest)
       IN  IF exists(cmd_files, cmd_dirs, new_path)
           THEN UNCHANGED <<cmd_pc, cmd_files, cmd_dirs, cmd_count, cmd_effects,
                            cmd_stdout, cmd_error, cmd_exit>>
           ELSE IF ~exists(cmd_files, cmd_dirs, old_path) THEN Abort("FileNotFoundError")
           ELSE /\ cmd_files' = renamed(cmd_files, old_path, new_path)
                /\ cmd_dirs' = renamed(cmd_dirs, old_path, new_path)
                /\ cmd_count' = cmd_count + 1
                /\ cmd_effects' = Append(cmd_effects, [op |-> "rename", src |-> old_path, dst |-> new_path])
                /\ UNCHANGED <<cmd_pc, cmd_stdout, cmd_error, cmd_exit>>
    /\ UNCHANGED cmd_call
    /\ NotCommand

\* either loop has run out: the count is printed and the command returns
command_done ==
    /\ cmd_pc \in {"Moving", "Renaming"}
    /\ cmd_todo = <<>>
    /\ cmd_stdout' = Append(cmd_stdout, IF cmd_pc = "Moving" THEN "Done. Moved" ELSE "Renamed")
    /\ cmd_exit' = "0"
    /\ cmd_pc' = "Done"
    /\ UNCHANGED <<cmd_call, cmd_files, cmd_dirs, cmd_todo, cmd_count, cmd_effects, cmd_error>>
    /\ NotCommand

\* the process ends; the next invocation starts afresh
command_exit ==
    /\ cmd_pc = "Done"
    /\ cmd_pc' = "Idle"
    /\ cmd_call' = NoCommand
    /\ cmd_files' = {}
    /\ cmd_dirs' = {}
    /\ cmd_todo' = <<>>
    /\ cmd_count' = 0
    /\ cmd_effects' = <<>>
    /\ cmd_stdout' = <<>>
    /\ cmd_error' = "none"
    /\ cmd_exit' = "none"
    /\ NotCommand

(***************************************************************************)
(* extract_code_block(response).                                           *)
(***************************************************************************)
\* the languages in the order the for loop tries them
CODE_LANGUAGES == <<<<"p", "y", "t", "h", "o", "n">>, <<"b", "a", "s", "h">>, <<"s", "h">>>>

\* response.split(marker, 1)[1]: what follows the first marker
after_first(s, marker) ==
    LET i == find_from(s, marker, 1)
    IN  SubSeq(s, i + Len(marker), Len(s))

\* text.split(sep, 1)[0]: what precedes the first sep, all of it without one
before_first(s, sep) ==
    LET i == find_from(s, sep, 1)
    IN  IF i = 0 THEN s ELSE SubSeq(s, 1, i - 1)

Extracted(found, lang, code) == [found |-> found, lang |-> lang, code |-> code]

\* the for loop from language i on
RECURSIVE extract_from(_, _)
extract_from(response, i) ==
    IF i > Len(CODE_LANGUAGES) THEN Extracted(FALSE, <<>>, <<>>)
    ELSE LET lang == CODE_LANGUAGES[i]
             marker == FENCE \o lang
             code == strip(before_first(after_first(response, marker), FENCE))
         IN  IF Contains(marker, response) /\ code # <<>>
             THEN Extracted(TRUE, IF lang # <<"s", "h">> THEN lang ELSE <<"b", "a", "s", "h">>, code)
             ELSE extract_from(response, i + 1)

extract_code_block(response) == extract_from(response, 1)

\* the parts of a response: prose, or a closed block tagged with a language
Part(lang, code) == [lang |-> lang, code |-> code]

Prose == <<"t", "e", "x", "t">>

ResponseParts ==
    {Part(Prose, <<"M", "o", "r", "e", " ", "t", "e", "x", "t">>)} \cup
    {Part(lang, code) : lang \in {<<"p", "y", "t", "h", "o", "n">>, <<"b", "a", "s", "h">>, <<"s", "h">>},
                        code \in {<<"f", "i", "r", "s", "t", "(", ")">>, <<"s", "e", "c", "o", "n", "d">>, <<>>}}

render_part(part) ==
    IF part.lang = Prose THEN part.code \o <<"\n">>
    ELSE FENCE \o part.lang \o <<"\n">> \o part.code \o (IF part.code = <<>> THEN <<>> ELSE <<"\n">>) \o FENCE \o <<"\n">>

render(parts) ==
    IF parts = <<>> THEN <<>>
    ELSE concat([i \in DOMAIN parts |-> render_part(parts[i])], 1, Len(parts))

ExtractInputs == ListsUpTo(ResponseParts, MaxParts)

ExtIdle ==
    /\ ext_pc = "Idle"
    /\ ext_parts = <<>>
    /\ ext_response = <<>>
    /\ ext_ret = Extracted(FALSE, <<>>, <<>>)

NotExtract ==
    UNCHANGED <<execVars, envVars, resVars, regVars, convVars, catVars, dataVars, dispVars, exeVars, cmdVars, sessVars>>

\* extract_code_block(response) is called and returns
extract_call ==
    /\ ext_pc = "Idle"
    /\ \E parts \in ExtractInputs :
       \E response \in {render(parts)} :
         /\ ext_parts' = parts
         /\ ext_response' = response
         /\ ext_ret' = extract_code_block(response)
    /\ ext_pc' = "Returned"
    /\ NotExtract

\* the caller has used the result
extract_done ==
    /\ ext_pc = "Returned"
    /\ ext_pc' = "Idle"
    /\ ext_parts' = <<>>
    /\ ext_response' = <<>>
    /\ ext_ret' = Extracted(FALSE, <<>>, <<>>)
    /\ NotExtract

(***************************************************************************)
(* install(tool), and the session in which installs and calls of           *)
(* _resolve_tool follow one another.                                       *)
(***************************************************************************)
\* the archive downloaded holds the binary under its name or under bin/
ArchiveOutcomes == {"found", "not found", "download failed"}

InstallTools == DOMAIN TOOLS_URLS \cup {"magick"}

SessIdle ==
    /\ sess_start = {}
    /\ sess_installed = {}
    /\ sess_stdout = <<>>
    /\ sess_exit = "none"

\* install(tool) from its entry to its return; it runs between the calls of
\* the resolver
install ==
    /\ res_pc = "Idle"
    /\ \E tool \in InstallTools, archive \in ArchiveOutcomes :
        IF tool \notin DOMAIN TOOLS_URLS
        THEN /\ sess_stdout' = <<"Unknown tool">>
             /\ sess_exit' = "1"
             /\ UNCHANGED <<installed, sess_installed>>
        ELSE IF archive = "found"
        THEN /\ installed' = installed \cup {tool}
             /\ sess_installed' = sess_installed \cup {tool}
             /\ sess_stdout' = <<"Downloading", "Extracting", "Successfully installed">>
             /\ sess_exit' = "0"
        ELSE /\ sess_stdout' = IF archive = "not found"
                               THEN <<"Downloading", "Extracting", "Could not find binary in zip archive">>
                               ELSE <<"Downloading", "Install failed">>
             /\ sess_exit' = "0"
             /\ UNCHANGED <<installed, sess_installed>>
    /\ UNCHANGED <<loaded, sess_start>>
    /\ UNCHANGED <<execVars, resVars, regVars, convVars, catVars, dataVars, dispVars, exeVars, cmdVars, extVars>>

OtherIdle ==
    /\ CatIdle
    /\ DataIdle
    /\ DispIdle
    /\ ExeIdle
    /\ CmdIdle
    /\ ExtIdle
    /\ SessIdle

(***************************************************************************)
(* Specifications.                                                         *)
(***************************************************************************)
\* the host of the executor model; the executor asks the prober for nothing
EnvNone ==
    /\ installed = {}
    /\ loaded = {}

\* the executor and its callers ask and execute
Init ==
    /\ ExecIdle
    /\ EnvNone
    /\ ResIdle
    /\ RegIdle
    /\ ConvIdle
    /\ OtherIdle

Next ==
    \/ call_shell
    \/ ask
    \/ execute_run
    \/ shell_check_and_spawn
    \/ script_spawn
    \/ child_exit_zero
    \/ child_exit_nonzero
    \/ timeout_expired
    \/ cli_exit

Spec == Init /\ [][Next]_vars

\* _resolve_tool on every host
ResolveInit ==
    /\ installed \in InstalledChoices
    /\ loaded \in LoadedChoices
    /\ ExecIdle
    /\ ResIdle
    /\ RegIdle
    /\ ConvIdle
    /\ OtherIdle

ResolveNext ==
    \/ resolve_call
    \/ resolve_done

ResolveSpec == ResolveInit /\ [][ResolveNext]_vars

\* hosts of the convert model: nothing or everything installed and imported
ConvertInit ==
    /\ installed \in {{}, ExternalCommands \cup MacCommands}
    /\ loaded \in {{}, LibraryFlags}
    /\ ExecIdle
    /\ ResIdle
    /\ RegIdle
    /\ ConvIdle
    /\ OtherIdle

ConvertNext ==
    \/ supports_call
    \/ supports_done
    \/ convert
    \/ adapter_shell
    \/ adapter_inprocess
    \/ convert_exit

ConvertSpec == ConvertInit /\ [][ConvertNext]_vars

\* _categorize_file on file names
CategorizeInit ==
    /\ EnvNone
    /\ ExecIdle
    /\ ResIdle
    /\ RegIdle
    /\ ConvIdle
    /\ OtherIdle

CategorizeNext ==
    \/ categorize_call
    \/ categorize_done

CategorizeSpec == CategorizeInit /\ [][CategorizeNext]_vars

\* _convert_data with no library and with every library imported
DataInit ==
    /\ installed = {}
    /\ loaded \in {{}, LibraryFlags}
    /\ ExecIdle
    /\ ResIdle
    /\ RegIdle
    /\ ConvIdle
    /\ OtherIdle

DataNext ==
    \/ convert_data_call
    \/ convert_data_back
    \/ convert_data_done

DataSpec == DataInit /\ [][DataNext]_vars

\* dispatch and get_llm_response; no tool is probed
DispatchInit ==
    /\ EnvNone
    /\ ExecIdle
    /\ ResIdle
    /\ RegIdle
    /\ ConvIdle
    /\ OtherIdle

DispatchNext ==
    \/ dispatch
    \/ completion_returns
    \/ completion_raises
    \/ dispatch_print
    \/ dispatch_exit

DispatchSpec == DispatchInit /\ [][DispatchNext]_vars

\* execute on a folder; no tool is probed
ExecuteInit ==
    /\ EnvNone
    /\ ExecIdle
    /\ ResIdle
    /\ RegIdle
    /\ ConvIdle
    /\ OtherIdle

ExecuteNext ==
    \/ execute
    \/ organize_makedirs
    \/ organize_move
    \/ rename_step
    \/ loop_done
    \/ delegate
    \/ execute_exit

ExecuteSpec == ExecuteInit /\ [][ExecuteNext]_vars

\* the commands organize and rename
CommandInit ==
    /\ EnvNone
    /\ ExecIdle
    /\ ResIdle
    /\ RegIdle
    /\ ConvIdle
    /\ OtherIdle

CommandNext ==
    \/ organize
    \/ rename
    \/ organize_apply
    \/ rename_apply
    \/ command_done
    \/ command_exit

CommandSpec == CommandInit /\ [][CommandNext]_vars

\* extract_code_block over the responses
ExtractInit ==
    /\ EnvNone
    /\ ExecIdle
    /\ ResIdle
    /\ RegIdle
    /\ ConvIdle
    /\ OtherIdle

ExtractNext ==
    \/ extract_call
    \/ extract_done

ExtractSpec == ExtractInit /\ [][ExtractNext]_vars

\* a session: the host as it is found, then installs and resolver calls in
\* any order
SessionInit ==
    /\ installed \in InstalledChoices
    /\ loaded \in {LibraryFlags, {}}
    /\ ExecIdle
    /\ ResIdle
    /\ RegIdle
    /\ ConvIdle
    /\ CatIdle
    /\ DataIdle
    /\ DispIdle
    /\ ExeIdle
    /\ CmdIdle
    /\ ExtIdle
    /\ sess_start = installed
    /\ sess_installed = {}
    /\ sess_stdout = <<>>
    /\ sess_exit = "none"

SessionNext ==
    \/ install
    \/ resolve_call
    \/ resolve_done

SessionSpec == SessionInit /\ [][SessionNext]_vars

(***************************************************************************)
(* Properties of the Command Executor and the Safety Filter.               *)
(***************************************************************************)
PatternSet == { DANGEROUS_PATTERNS[i] : i \in DOMAIN DANGEROUS_PATTERNS }
RegexSet == { DANGEROUS_REGEXES[i] : i \in DOMAIN DANGEROUS_REGEXES }

\* The deny rule as the specification words it: the lower-cased, trimmed
\* command contains a literal pattern or matches a deny-regex.
DenyRuleMatches(cmd) ==
    \/ \E p \in PatternSet : Contains(p, strip(lower(cmd)))
    \/ \E r \in RegexSet : re_search(r, strip(lower(cmd)))

\* the function execute_shell_command is past its deny loops
ShellChecked == fn = "shell" /\ pc # "Pending"

\* C1: a command whose lower-cased trimmed form contains a literal deny-pattern
\* or matches a deny-regex, in any letter case and with any surrounding
\* whitespace, makes execute_shell_command return False, and no process is
\* spawned for it at any moment of the invocation.
C1_DeniedNeverSpawned ==
    (fn = "shell" /\ DenyRuleMatches(command)) =>
        /\ spawns = 0
        /\ child = "none"
        /\ pc \in {"Pending", "Blocked"}
        /\ (pc = "Blocked" => ret = "False")

\* "CURL X|BASH", upper case, blocked by the curl regex
C1_Witness ==
    /\ fn = "shell"
    /\ pc = "Blocked"
    /\ ret = "False"
    /\ spawns = 0
    /\ command = <<"C", "U", "R", "L", " ", "X", "|", "B", "A", "S", "H">>

\* C2: each literal pattern of DANGEROUS_PATTERNS, given as the whole command,
\* is blocked and not spawned; in particular "chmod -R 777 /".
C2_EveryLiteralPatternBlocks ==
    \A p \in PatternSet :
        (ShellChecked /\ command = p) => (pc = "Blocked" /\ spawns = 0)

\* C3: a command that matches no deny rule is spawned exactly once, with the
\* 300-second timeout and with the managed local-tool directory first in PATH.
C3_AllowedSpawnedOnce ==
    (ShellChecked /\ ~DenyRuleMatches(command)) =>
        /\ pc # "Blocked"
        /\ spawns = 1
        /\ spawn_timeout = 300
        /\ spawn_path # <<>>
        /\ Head(spawn_path) = LOCAL_BIN_DIR

\* "curl http://x", no pipe to a shell, is running
C3_Witness ==
    /\ fn = "shell"
    /\ pc = "Running"
    /\ spawns = 1
    /\ command = <<"c", "u", "r", "l", " ", "h", "t", "t", "p", ":", "/", "/", "x">>

ShellPaths ==
    { <<"Pending">>,
      <<"Pending", "Blocked">>,
      <<"Pending", "Running">>,
      <<"Pending", "Running", "Succeeded">>,
      <<"Pending", "Running", "Failed">>,
      <<"Pending", "Running", "TimedOut">> }

\* C4: an execute_shell_command invocation goes Pending -> Blocked or
\* Pending -> Running -> Succeeded | Failed | TimedOut, never Running after
\* Blocked; it returns only in one of the four terminal outcomes, and while
\* it is Running the timeout that ends it is armed; it returns True exactly
\* when the child exited with status zero (Succeeded), False otherwise.
C4_StateMachine ==
    fn = "shell" =>
        /\ trace \in ShellPaths
        /\ pc = trace[Len(trace)]
        /\ (pc = "Succeeded" <=> child = "exited_0")
        /\ (ret = "True" <=> pc = "Succeeded")
        /\ (pc \in {"Blocked", "Failed", "TimedOut"} => ret = "False")
        /\ (pc \in {"Pending", "Running"} <=> ret = "None")
        /\ (pc = "Running" => child = "running" /\ spawn_timeout # NoTimeout)

\* a shell command timed out
C4_Witness ==
    /\ fn = "shell"
    /\ trace = <<"Pending", "Running", "TimedOut">>
    /\ child = "killed"
    /\ ret = "False"

\* C5: LLM-generated code run by ask or by the run action of execute, shell
\* or script, passes the safety filter before a process is spawned: code that
\* matches a deny rule is never run.
C5_GeneratedCodeFiltered ==
    (entry \in {"ask", "execute"} /\ spawns > 0) => ~DenyRuleMatches(command)

\* C6: every process the Command Executor spawns, for a shell command or for
\* a generated script, runs under the wall-clock timeout.
C6_EverySpawnHasTimeout ==
    pc = "Running" => spawn_timeout = 300

(***************************************************************************)
(* Properties of the Tool Resolver.                                        *)
(***************************************************************************)
BuiltinTools == {"python", "sips", "afconvert", "textutil"}

\* the load flag each bundled library answers to
FlagOf ==
    [t \in {"pillow", "pydub", "py_docx", "py_markdown", "py_pdf", "py_yaml", "py_xlsx",
            "py_toml", "py_epub"} |->
        CASE t = "pillow" -> "_HAS_PILLOW"
          [] t = "pydub" -> "_HAS_PYDUB"
          [] t = "py_docx" -> "_HAS_PYTHON_DOCX"
          [] t = "py_markdown" -> "_HAS_MARKDOWN"
          [] t = "py_pdf" -> "_HAS_FPDF"
          [] t = "py_yaml" -> "_HAS_PYYAML"
          [] t = "py_xlsx" -> "_HAS_OPENPYXL"
          [] t = "py_toml" -> "_HAS_TOML"
          [] t = "py_epub" -> "_HAS_EBOOKLIB"]

\* the availability rule of a tool identifier on the current host
Available(t) ==
    \/ t \in BuiltinTools
    \/ t \in {"ffmpeg", "pandoc"} /\ t \in installed
    \/ t = "magick" /\ installed \cap {"magick", "convert"} # {}
    \/ t \in DOMAIN FlagOf /\ FlagOf[t] \in loaded

\* the positions of the available candidates of the call
AvailablePositions == { i \in DOMAIN res_tool_list : Available(res_tool_list[i]) }

\* C7: for every ordered candidate list, _resolve_tool returns the earliest
\* element that satisfies its availability rule, and None when the list is
\* empty or no element satisfies it; of several available candidates the
\* first in the list wins.
C7_FirstAvailableWins ==
    res_pc = "Returned" =>
        IF AvailablePositions = {}
        THEN res_result = "None"
        ELSE \E i \in AvailablePositions :
                /\ \A j \in AvailablePositions : i <= j
                /\ res_result = res_tool_list[i]

C7_Witness ==
    /\ res_pc = "Returned"
    /\ res_tool_list = <<"ffmpeg", "afconvert", "pydub">>
    /\ "ffmpeg" \notin installed
    /\ "_HAS_PYDUB" \in loaded
    /\ res_result = "afconvert"

\* C8: python, sips, afconvert and textutil resolve on every host, whatever
\* the Availability Prober would answer for them and without a call of it
\* (a list holding one of them resolves to it or to an earlier element, and
\* the prober is only ever asked for external binaries); ffmpeg, magick and
\* pandoc are returned only when the prober finds them, and a bundled library
\* only when its load flag is set.
C8_BuiltinsAlwaysResolve ==
    res_pc = "Returned" =>
        /\ \A i \in DOMAIN res_tool_list :
              res_tool_list[i] \in BuiltinTools =>
                  \E j \in 1..i : res_result = res_tool_list[j]
        /\ \A k \in DOMAIN res_probed : res_probed[k] \in ExternalCommands
        /\ (\A i \in DOMAIN res_tool_list : res_tool_list[i] \in BuiltinTools)
              => res_probed = <<>>
        /\ res_result \in {"ffmpeg", "pandoc"} => res_result \in installed
        /\ res_result = "magick" => ("magick" \in installed \/ "convert" \in installed)
        /\ res_result \in DOMAIN FlagOf => FlagOf[res_result] \in loaded

C8_Witness ==
    /\ res_pc = "Returned"
    /\ res_tool_list = <<"sips">>
    /\ "sips" \notin installed
    /\ res_result = "sips"
    /\ res_probed = <<>>

(***************************************************************************)
(* Properties of the Capability Registry and of the candidate lists.       *)
(***************************************************************************)
\* the static format set of each tool other than python
CapabilityTable ==
    [t \in ToolIds \ {"python"} |->
        CASE t = "sips" -> SIPS_FORMATS
          [] t = "afconvert" -> AFCONVERT_FORMATS
          [] t = "textutil" -> TEXTUTIL_FORMATS
          [] t = "pandoc" -> PANDOC_FORMATS
          [] t = "ffmpeg" -> FFMPEG_FORMATS
          [] t = "magick" -> MAGICK_FORMATS
          [] t = "pillow" -> PILLOW_FORMATS
          [] t = "pydub" -> PYDUB_FORMATS
          [] t = "py_docx" -> PY_DOCX_FORMATS
          [] t = "py_markdown" -> PY_MARKDOWN_FORMATS
          [] t = "py_pdf" -> PY_PDF_FORMATS
          [] t = "py_yaml" -> PY_YAML_FORMATS
          [] t = "py_xlsx" -> PY_XLSX_FORMATS
          [] t = "py_toml" -> PY_TOML_FORMATS
          [] t = "py_epub" -> PY_EPUB_FORMATS]

\* the reference relation of the registry
ReferenceSupports(tool, format) ==
    \/ tool = "python"
    \/ tool \in DOMAIN CapabilityTable /\ lower(format) \in CapabilityTable[tool]

\* the same format token in other letter cases
CaseVariants(format) == {format, lower(format), upper(format), capitalize(lower(format))}

\* C9: _tool_supports_target(tool, format) returns a boolean for every tool
\* identifier and format, equal to the reference relation: true for python
\* with any format, true for another known tool exactly when the lower-cased
\* format is in its static format set, false for an unknown identifier; and
\* the letter case of the format does not change the result.
C9_SupportsIsReference ==
    reg_pc = "Returned" =>
        /\ reg_supported \in BOOLEAN
        /\ reg_supported = ReferenceSupports(reg_tool, reg_target)
        /\ reg_tool \notin ToolIds => reg_supported = FALSE
        /\ \A v \in CaseVariants(reg_target) :
              tool_supports_target(reg_tool, v) = reg_supported

C9_Witness ==
    /\ reg_pc = "Returned"
    /\ reg_tool = "sips"
    /\ reg_target = <<"P", "N", "G">>
    /\ reg_supported = TRUE

\* a host with every binary and every library
KnownToRegistry(t) == t = "python" \/ \E f \in DeclaredFormats : tool_supports_target(t, f)
KnownToResolver(t) ==
    resolve_tool(<<t>>, ExternalCommands \cup MacCommands, LibraryFlags).tool = t
KnownToDispatch(t) == adapter_of(t) # "none"

ElementsOf(l) == { l[i] : i \in DOMAIN l }

\* C10: every tool identifier in a candidate list of convert (an entry of
\* CONVERSION_MAP, a default list of the category heuristic, the PDF rescue
\* list) is one the Capability Registry has a format set for, _resolve_tool
\* has a branch for and the dispatch of convert has an adapter for; and every
\* entry of CONVERSION_MAP is a non-empty list.
C10_CandidateToolsKnown ==
    /\ conv_pc # "Idle" =>
          /\ \A t \in ElementsOf(conv_tool_list) \cup ElementsOf(conv_capable) :
                /\ t \in ToolIds
                /\ KnownToRegistry(t)
                /\ KnownToResolver(t)
                /\ KnownToDispatch(t)
          /\ conv_exact => conv_tool_list # <<>>
    /\ \A k \in DOMAIN CONVERSION_MAP : CONVERSION_MAP[k] # <<>>

C10_Witness ==
    /\ conv_pc = "Dispatched"
    /\ conv_ext = <<".", "m", "p", "3">>
    /\ conv_target = <<"p", "d", "f">>
    /\ conv_tool_list = <<"ffmpeg", "afconvert", "pydub">>
    /\ conv_capable = <<"pandoc", "py_pdf">>
    /\ conv_tool = "pandoc"
    /\ conv_adapter = "pandoc"

(***************************************************************************)
(* Properties of the file categories.                                      *)
(***************************************************************************)
\* the categories that list an extension
CategoriesOf(e) == { c \in DOMAIN EXTENSION_CATEGORIES : e \in EXTENSION_CATEGORIES[c] }

\* C11: no extension is in two categories of EXTENSION_CATEGORIES, so
\* _categorize_file maps every file name to exactly one category: the one
\* that lists its lower-cased extension, or Other when none does.
C11_OneCategoryPerExtension ==
    /\ \A c1, c2 \in DOMAIN EXTENSION_CATEGORIES :
          c1 # c2 => EXTENSION_CATEGORIES[c1] \cap EXTENSION_CATEGORIES[c2] = {}
    /\ cat_pc = "Returned" =>
          LET e == lower(path_suffix(cat_filename))
          IN /\ Cardinality(CategoriesOf(e)) <= 1
             /\ CategoriesOf(e) = {} => cat_result = "Other"
             /\ CategoriesOf(e) # {} => CategoriesOf(e) = {cat_result}

C11_Witness ==
    /\ cat_pc = "Returned"
    /\ cat_filename = <<"M", "y", ".", "t", "a", "r", ".", "G", "Z">>
    /\ cat_result = "Archives"

(***************************************************************************)
(* Properties of convert.                                                  *)
(***************************************************************************)
\* the adapter's underlying operation failed
AdapterFailed == conv_shell \in {"Blocked", "Failed", "TimedOut"} \/ conv_ok = "False"
\* the adapter reported success
AdapterSucceeded == conv_shell = "Succeeded" \/ conv_ok = "True"

\* C12: convert finishes with exit code 0 only if the adapter of the selected
\* tool reported success; whenever the adapter's operation fails (the command
\* exits non-zero, times out or is blocked, or the in-process routine returns
\* False) convert ends with exit code 1.
C12_ExitZeroOnlyOnSuccess ==
    /\ conv_exit = "0" => AdapterSucceeded
    /\ AdapterFailed => conv_exit = "1"

PreSelectionFailures == {"FileNotFound", "NoKnownConverter", "NoCapableTool", "ToolUnavailable"}

\* C13: when convert fails before a tool is selected (file missing, no exact
\* key and no category, no capable tool, no available tool) it exits with
\* code 1, has run no adapter, spawned no process and written no output
\* file; and the existence check comes first: for a missing file nothing
\* else has been computed.
C13_EarlyFailureDoesNothing ==
    /\ conv_pc \in PreSelectionFailures =>
          /\ conv_exit = "1"
          /\ conv_tool = "unset"
          /\ conv_adapter = "none"
          /\ conv_adapter_calls = 0
          /\ conv_spawns = 0
          /\ conv_written = FALSE
    /\ conv_pc = "FileNotFound" =>
          /\ conv_ext = <<>> /\ conv_target = <<>> /\ conv_output_path = <<>>
          /\ conv_tool_list = <<>> /\ conv_capable = <<>>
          /\ conv_resolves = 0
    /\ conv_pc = "NoKnownConverter" => (~conv_exact /\ conv_tool_list = <<>>)
    /\ conv_pc = "NoCapableTool" => (conv_tool_list # <<>> /\ conv_capable = <<>>)
    /\ conv_pc = "ToolUnavailable" =>
          (conv_capable # <<>> /\ \A i \in DOMAIN conv_capable : ~Available(conv_capable[i]))

C13_Witness ==
    /\ conv_pc = "ToolUnavailable"
    /\ conv_ext = <<".", "m", "p", "4">>
    /\ conv_target = <<"a", "v", "i">>
    /\ conv_capable = <<"ffmpeg">>
    /\ conv_exit = "1"
    /\ conv_adapter_calls = 0

\* the tools with a known download source
Installable == {"ffmpeg", "pandoc"}
InstallablePositions == { i \in DOMAIN conv_capable : conv_capable[i] \in Installable }

\* C14: when no capable candidate resolves, convert reports as the tool to
\* install the first element, in candidate order, of the capability-filtered
\* list that has a download source (none when there is no such element),
\* exits with code 1, has called _resolve_tool once and has run nothing.
C14_FirstInstallableReported ==
    conv_pc = "ToolUnavailable" =>
        /\ IF InstallablePositions = {}
           THEN conv_need_install = "none"
           ELSE \E i \in InstallablePositions :
                   /\ \A j \in InstallablePositions : i <= j
                   /\ conv_need_install = conv_capable[i]
        /\ conv_exit = "1"
        /\ conv_resolves = 1
        /\ conv_adapter_calls = 0
        /\ conv_spawns = 0

C14_Witness ==
    /\ conv_pc = "ToolUnavailable"
    /\ conv_capable = <<"pandoc", "py_docx">>
    /\ conv_need_install = "pandoc"
    /\ conv_exit = "1"

\* C15: when the source or the target extension is in the Video category the
\* only tool convert selects is ffmpeg, and pydub is selected only for
\* audio-to-audio conversions.
C15_VideoOnlyFfmpeg ==
    conv_tool # "unset" =>
        /\ (conv_ext \in EXTENSION_CATEGORIES["Video"]
            \/ (<<".">> \o conv_target) \in EXTENSION_CATEGORIES["Video"])
              => conv_tool = "ffmpeg"
        /\ conv_tool = "pydub" =>
              /\ conv_ext \in EXTENSION_CATEGORIES["Audio"]
              /\ (<<".">> \o conv_target) \in EXTENSION_CATEGORIES["Audio"]

\* the ways of writing the target X that the normalization has to accept
WrittenForms ==
    [X \in WrappedTokens |->
        LET lowered == { w \o X : w \in {<<>>, <<".">>, <<"t", "o", " ">>, <<"a", "s", " ">>,
                                         <<"i", "n", "t", "o", " ">>,
                                         <<"c", "o", "n", "v", "e", "r", "t", " ", "t", "o", " ">>} }
            cased == lowered \cup { upper(s) : s \in lowered }
                     \cup { capitalize(s) : s \in lowered }
        IN cased \cup { <<" ">> \o s \o <<" ", " ">> : s \in cased }]

\* C16: X, .X, to X, as X, into X and convert to X, in any letter case and
\* with surrounding whitespace, are normalized to the same lower-case token
\* X: the conversion key, the candidates, the selected tool and the output
\* path (the source path with its extension replaced by .X) are those of X.
C16_TargetNormalized ==
    \A X \in WrappedTokens :
        (conv_pc \notin {"Idle", "FileNotFound"} /\ conv_raw \in WrittenForms[X]) =>
            LET p == plan_candidates(conv_ext, X)
            IN /\ conv_target = X
               /\ conv_output_path = INPUT_STEM \o <<".">> \o X
               /\ conv_exact = (conversion_key(conv_ext, X) \in DOMAIN CONVERSION_MAP)
               /\ conv_tool_list = p.tool_list
               /\ conv_capable = p.capable
               /\ conv_tool # "unset" =>
                     conv_tool = resolve_tool(p.capable, installed, loaded).tool

C16_Witness ==
    /\ conv_pc = "Finished"
    /\ conv_raw = <<" ", "C", "O", "N", "V", "E", "R", "T", " ", "T", "O", " ", "J", "P", "G", " ", " ">>
    /\ conv_ext = <<".", "p", "n", "g">>
    /\ conv_target = <<"j", "p", "g">>
    /\ conv_output_path = <<"f", ".", "j", "p", "g">>
    /\ conv_tool = "sips"

(***************************************************************************)
(* Properties of _convert_data.                                            *)
(***************************************************************************)
EmptyList(doc) == doc.type = "list" /\ doc.items = <<>> /\ doc.prims = <<>>

\* the (ext, target) pairs _convert_data has a branch for, with the flag the
\* branch needs ("" for none)
BuiltinPairs ==
    {<<".json", "csv", "">>, <<".csv", "json", "">>,
     <<".json", "yaml", "_HAS_PYYAML">>, <<".json", "yml", "_HAS_PYYAML">>,
     <<".yaml", "json", "_HAS_PYYAML">>, <<".yml", "json", "_HAS_PYYAML">>,
     <<".json", "xlsx", "_HAS_OPENPYXL">>, <<".csv", "xlsx", "_HAS_OPENPYXL">>,
     <<".xlsx", "csv", "_HAS_OPENPYXL">>, <<".xlsx", "json", "_HAS_OPENPYXL">>,
     <<".json", "toml", "_HAS_TOML">>, <<".toml", "json", "_HAS_TOML">>}

HasConverter(ext, target) ==
    \E p \in BuiltinPairs : p[1] = ext /\ p[2] = target /\ (p[3] = "" \/ p[3] \in loaded)

\* the failures _convert_data has to report
MustFail(c) ==
    \/ ~HasConverter(c.ext, c.target)
    \/ c.ext = ".json" /\ c.target \in {"csv", "xlsx"} /\ EmptyList(c.doc)
    \/ c.ext = ".json" /\ c.target = "toml" /\ c.doc.type \in {"list", "scalar"}

\* C17: _convert_data fails closed: an empty JSON array to CSV or XLSX, a
\* JSON value that is not a table to TOML and a pair without built-in
\* converter make it return False, not raise; and whenever it returns False
\* the output file has not been created or modified.
C17_DataFailsClosed ==
    data_pc = "Returned" =>
        /\ MustFail(data_call) => data_ret.result = "False"
        /\ data_ret.result = "False" => ~data_ret.written

C17_Witness ==
    /\ data_pc = "Returned"
    /\ data_call.ext = ".json"
    /\ data_call.target = "csv"
    /\ EmptyList(data_call.doc)
    /\ data_ret.result = "False"
    /\ ~data_ret.written

\* the string forms of a JSON value (for null: the empty field csv writes,
\* Python's None, JSON's null)
StringForms(v) ==
    IF v.kind = "null" THEN {<<>>, <<"N", "o", "n", "e">>, <<"n", "u", "l", "l">>}
    ELSE {v.text}

\* C18: a JSON file holding a non-empty list of flat objects is converted to
\* CSV and the CSV back to JSON: both conversions succeed, the result has as
\* many records, and every field of every original record is in the
\* corresponding record with the string form of its value.
C18_JsonCsvRoundTrip ==
    (/\ data_call.ext = ".json" /\ data_call.target = "csv"
     /\ data_call.doc.type = "list" /\ data_call.doc.items # <<>>) =>
        LET items == data_call.doc.items
            back == data_back.records
        IN /\ data_pc = "Returned" => data_ret.result = "True"
           /\ data_pc = "Back" =>
                 /\ data_back.result = "True"
                 /\ Len(back) = Len(items)
                 /\ \A i \in DOMAIN items : \A k \in DOMAIN items[i] :
                       /\ i \in DOMAIN back
                       /\ k \in DOMAIN back[i]
                       /\ back[i][k] \in StringForms(items[i][k])

(***************************************************************************)
(* Properties of dispatch.                                                 *)
(***************************************************************************)
\* C19: dispatch called with an agent name outside {convert, organize,
\* summarize, rename, command} exits with a non-zero code and makes no LLM
\* call and builds no prompt: the check of the agent name precedes every
\* other step, so such an invocation is only ever seen rejected.
C19_UnknownAgentRejectedFirst ==
    (disp_pc # "Idle" /\ disp_agent \notin valid_agents)
        => /\ disp_pc = "Rejected"
           /\ disp_exit = "1"
           /\ llm_calls = 0
           /\ llm_attempt = 0
           /\ llm_ret = NoReply
           /\ disp_prompt = NoPrompt
           /\ disp_images = 0

C19_Witness ==
    /\ disp_pc = "Rejected"
    /\ disp_agent = "bogus_agent"
    /\ disp_paths # <<>>
    /\ disp_exit = "1"
    /\ llm_calls = 0

\* the plan a printed line holds, when it holds one
HasAction(v) ==
    /\ v.kind = "object"
    /\ \E i \in DOMAIN v.items : v.items[i].key = <<"a", "c", "t", "i", "o", "n">>

ActionOf(v) ==
    (CHOOSE m \in {v.items[i] : i \in DOMAIN v.items} : m.key = <<"a", "c", "t", "i", "o", "n">>).val

\* C20: for a valid agent name and every LLM reply (a JSON object, JSON of
\* another type, JSON in Markdown fences, plain text, an LLM error string),
\* dispatch prints exactly one line, the line parses as JSON and is an
\* object with an action field; a reply that is not JSON yields the
\* fallback with action = "none".
C20_OnePlanLine ==
    (disp_pc = "Printed" /\ disp_agent \in valid_agents)
        => /\ Len(disp_stdout) = 1
           /\ json_loads(disp_stdout[1].text).ok
           /\ HasAction(json_loads(disp_stdout[1].text).val)
           /\ ~json_loads(clean_response(llm_ret)).ok
                => ActionOf(json_loads(disp_stdout[1].text).val) = JsonString(<<"n", "o", "n", "e">>)

(***************************************************************************)
(* Properties of execute.                                                  *)
(***************************************************************************)
\* the plan of the invocation under way, as json.loads reads it
PlanRead == json_loads(exe_call.plan_json)

PlanAction == dict_get(PlanRead.val, <<"a", "c", "t", "i", "o", "n">>, JsonString(<<"n", "o", "n", "e">>))

NoSideEffect ==
    /\ exe_effects = <<>>
    /\ exe_files = exe_call.files
    /\ exe_dirs = exe_call.dirs
    /\ exe_count = 0

\* C21: execute given an input that is not valid JSON, or a plan whose
\* action is outside {none, convert, resize, organize, summarize, rename,
\* run}, ends as a handled error with exit code 1 (no uncaught exception)
\* and moves, renames, converts, asks and spawns nothing; a plan with
\* action none exits 0 with the same absence of side effects.
C21_BadPlanHandled ==
    exe_pc # "Idle" =>
        \A read \in {PlanRead} :
        /\ (\/ ~read.ok
            \/ /\ read.val.kind = "object"
               /\ \A known \in KNOWN_ACTIONS :
                    ~is_text(dict_get(read.val, <<"a", "c", "t", "i", "o", "n">>, JsonString(<<"n", "o", "n", "e">>)), known))
              => /\ exe_pc = "Done"
                 /\ exe_exit = "1"
                 /\ exe_error = "none"
                 /\ NoSideEffect
        /\ (/\ read.ok
            /\ read.val.kind = "object"
            /\ is_text(dict_get(read.val, <<"a", "c", "t", "i", "o", "n">>, JsonString(<<"n", "o", "n", "e">>)),
                       <<"n", "o", "n", "e">>))
              => /\ exe_pc = "Done"
                 /\ exe_exit = "0"
                 /\ exe_error = "none"
                 /\ NoSideEffect

C21_Witness ==
    /\ exe_pc = "Done"
    /\ PlanRead.ok
    /\ PlanRead.val.kind = "object"
    /\ is_text(PlanAction, <<"t", "e", "l", "e", "p", "o", "r", "t">>)
    /\ exe_call.files # {}
    /\ exe_exit = "1"
    /\ exe_stdout = <<"Unknown action">>

\* the paths a step leaves as they were: all but those at or below p and q
Untouched(p, q) ==
    \A r \in exe_files \cup exe_dirs \cup exe_files' \cup exe_dirs' :
        (~is_prefix(p, r) /\ ~is_prefix(q, r))
            => /\ (r \in exe_files <=> r \in exe_files')
               /\ (r \in exe_dirs <=> r \in exe_dirs')

\* the step took what was at path p to path q
Took(p, q) ==
    /\ ~exists(exe_files', exe_dirs', p)
    /\ exists(exe_files', exe_dirs', q)
    /\ p \in exe_files => q \in exe_files'
    /\ Untouched(p, q)
    /\ exe_count' = exe_count + 1

LeftAlone ==
    /\ exe_files' = exe_files
    /\ exe_dirs' = exe_dirs
    /\ exe_count' = exe_count

MovesDone == Cardinality({i \in DOMAIN exe_effects : exe_effects[i].op \in {"move", "rename"}})

\* C22: execute with an organize plan processes the (destination folder,
\* filename) entries in plan order: every step of the loop takes the next
\* entry and raises nothing; a file is moved exactly when its source exists
\* in the folder and its destination does not exist at that moment, nothing
\* else is touched, and the count reported equals the moves performed.
C22_OrganizeInPlanOrder ==
    [][exe_pc = "Organize" =>
        /\ exe_count = MovesDone
        /\ exe_todo # <<>> =>
            /\ exe_todo' = Tail(exe_todo)
            /\ exe_error' = "none"
            /\ exe_pc' = "Organize"
            /\ IF Head(exe_todo).op = "move"
               THEN IF /\ exists(exe_files, exe_dirs, <<Head(exe_todo).name>>)
                       /\ ~exists(exe_files, exe_dirs, <<Head(exe_todo).dest, Head(exe_todo).name>>)
                    THEN Took(<<Head(exe_todo).name>>, <<Head(exe_todo).dest, Head(exe_todo).name>>)
                    ELSE LeftAlone
               ELSE exe_files' = exe_files /\ exe_count' = exe_count
        /\ exe_todo = <<>> => (exe_exit' = "0" /\ LeftAlone)
    ]_vars

\* C23: execute with a rename plan processes the entries in plan order,
\* renames a file exactly when its source path exists and the new path does
\* not exist at that moment, never overwrites an existing file, reports and
\* skips each missing source while going on with the remaining entries, and
\* reports a count equal to the renames performed.
C23_RenameInPlanOrder ==
    [][exe_pc = "Rename" =>
        /\ exe_count = MovesDone
        /\ exe_todo # <<>> =>
            /\ exe_todo' = Tail(exe_todo)
            /\ exe_error' = "none"
            /\ exe_pc' = "Rename"
            /\ IF /\ exists(exe_files, exe_dirs, <<Head(exe_todo).name>>)
                  /\ ~exists(exe_files, exe_dirs, join(<<>>, Head(exe_todo).dest))
               THEN Took(<<Head(exe_todo).name>>, join(<<>>, Head(exe_todo).dest))
               ELSE LeftAlone
            /\ ~exists(exe_files, exe_dirs, <<Head(exe_todo).name>>)
                  => exe_stdout' = Append(exe_stdout, "Skipped (not found)")
        /\ exe_todo = <<>> => (exe_exit' = "0" /\ LeftAlone)
    ]_vars

\* a rename plan of two entries has been carried out: one file renamed, one
\* entry skipped because its new name was taken
C23_Witness ==
    /\ exe_pc = "Done"
    /\ exe_exit = "0"
    /\ exe_count = 1
    /\ exe_stdout = <<"renamed", "Renamed">>
    /\ Len(rename_steps(dict_get(PlanRead.val, <<"r", "e", "n", "a", "m", "e", "s">>, JsonObject(<<>>)))) = 2

(***************************************************************************)
(* Properties of get_llm_response.                                         *)
(***************************************************************************)
AllRaised == \A i \in DOMAIN llm_outcomes : llm_outcomes[i] = "raised"

\* C24: get_llm_response makes at most retries + 1 calls to the completion
\* service and none after the first successful one; when every attempt
\* fails it makes exactly retries + 1 calls and returns a string beginning
\* with "Error"; whatever the completion calls do, it returns and raises
\* nothing.
C24_BoundedRetries ==
    /\ Len(llm_outcomes) = llm_calls
    /\ llm_calls <= retries + 1
    /\ \A i \in DOMAIN llm_outcomes :
          llm_outcomes[i] = "returned" => i = Len(llm_outcomes)
    /\ disp_pc = "Calling" => (AllRaised /\ llm_calls <= retries)
    /\ disp_pc \in {"Replied", "Printed"} =>
          \/ llm_outcomes[Len(llm_outcomes)] = "returned"
          \/ /\ AllRaised
             /\ llm_calls = retries + 1
             /\ startswith(llm_ret, <<"E", "r", "r", "o", "r">>)

C24_Witness ==
    /\ disp_pc = "Replied"
    /\ AllRaised
    /\ llm_calls = retries + 1
    /\ llm_ret = <<"E", "r", "r", "o", "r", ":", " ", "b", "o", "o", "m">>

(***************************************************************************)
(* Properties of the commands organize and rename.                         *)
(***************************************************************************)
\* C25: organize and rename invoked without --confirm only print the plan:
\* the invocation never enters the loop that moves or renames, the files
\* and directories stay as they were and no change has been made; whenever
\* the tree differs from the one the invocation started on, the invocation
\* carries --confirm.
C25_PreviewChangesNothing ==
    /\ (cmd_pc # "Idle" /\ ~cmd_call.confirm) =>
          /\ cmd_pc = "Done"
          /\ cmd_files = cmd_call.files
          /\ cmd_dirs = cmd_call.dirs
          /\ cmd_effects = <<>>
          /\ cmd_count = 0
    /\ (cmd_pc # "Idle" /\ (cmd_files # cmd_call.files \/ cmd_dirs # cmd_call.dirs \/ cmd_effects # <<>>)) =>
          cmd_call.confirm

C25_Witness ==
    /\ cmd_pc = "Done"
    /\ cmd_call.name = "rename"
    /\ ~cmd_call.confirm
    /\ cmd_stdout = <<"Analyzing", "Plan:", "preview">>
    /\ <<<<"a">>>> \in cmd_files
    /\ <<<<"c">>>> \notin cmd_files

(***************************************************************************)
(* Properties of execute_python_script.                                    *)
(***************************************************************************)
\* C26: once execute_python_script has returned, the temporary script file
\* it created no longer exists, whether the script ran and succeeded, ran
\* and failed, or no Python interpreter was found.
C26_TempFileRemoved ==
    (fn = "script" /\ pc \in Terminal) => ~tmp_exists

(***************************************************************************)
(* Properties of extract_code_block.                                       *)
(***************************************************************************)
\* the fenced blocks of the response, in the order they appear
Blocks == SelectSeq(ext_parts, LAMBDA part : part.lang # Prose)

\* C27: for a response with fenced python, bash or sh blocks in any order,
\* extract_code_block returns the language (sh given as bash) and the code
\* of the block that appears first in the response when that block is not
\* empty, and (None, None) when the response has no non-empty block.
C27_FirstBlockReturned ==
    ext_pc = "Returned" =>
        /\ (\A i \in DOMAIN Blocks : Blocks[i].code = <<>>) => ~ext_ret.found
        /\ (Blocks # <<>> /\ Blocks[1].code # <<>>) =>
              /\ ext_ret.found
              /\ ext_ret.code = Blocks[1].code
              /\ ext_ret.lang = IF Blocks[1].lang = <<"s", "h">>
                                THEN <<"b", "a", "s", "h">> ELSE Blocks[1].lang

(***************************************************************************)
(* Properties of check_command_availability across installs.               *)
(***************************************************************************)
\* C28: check_command_availability keeps no state between calls. The
\* commands present are those of the start of the session and those
\* installed since, and a call of _resolve_tool with the single candidate
\* ffmpeg or pandoc returns the tool exactly when it is present now: None
\* before the tool is installed, the tool after a successful install.
C28_InstallSeenByNextCheck ==
    /\ installed = sess_start \cup sess_installed
    /\ \A t \in DOMAIN TOOLS_URLS :
          (res_pc = "Returned" /\ res_tool_list = <<t>>) =>
              /\ res_probed = <<t>>
              /\ res_result = (IF t \in sess_start \cup sess_installed THEN t ELSE "None")

C28_Witness ==
    /\ res_pc = "Returned"
    /\ res_tool_list = <<"ffmpeg">>
    /\ res_result = "ffmpeg"
    /\ "ffmpeg" \notin sess_start
    /\ "ffmpeg" \in sess_installed
    /\ sess_stdout = <<"Downloading", "Extracting", "Successfully installed">>

(***************************************************************************)
(* The Capability Registry against the adapters of convert.                *)
(***************************************************************************)
\* the tools whose branch of convert looks the target up before it runs
MappedAdapters == {"sips", "afconvert", "textutil"}

\* C29: whenever convert has selected sips, afconvert or textutil for a
\* target that passed the capability filter, the tool's branch of convert
\* has a format mapping for the target, and the invocation does not stop
\* because the branch has none.
C29_RegistryAgreesWithAdapters ==
    (conv_tool \in MappedAdapters /\ tool_supports_target(conv_tool, conv_target)) =>
        /\ adapter_has_format(conv_tool, conv_target)
        /\ conv_pc # "AdapterFormatUnsupported"

(***************************************************************************)
(* CONVERSION_MAP against the Capability Registry.                         *)
(***************************************************************************)
\* C30: when the key of an invocation of convert is in CONVERSION_MAP, the
\* capability filter keeps every tool of the key's candidate list: the list
\* handed to _resolve_tool is the candidate list itself, so every tool of
\* the list supports the target according to the registry.
C30_ExactCandidatesAllCapable ==
    (conv_exact /\ conv_pc \notin {"Idle", "FileNotFound"}) =>
        /\ conv_capable = conv_tool_list
        /\ \A i \in DOMAIN conv_tool_list :
              tool_supports_target(conv_tool_list[i], conv_target)

=============================================================================
